---- MODULE Spec2Model ----
(***************************************************************************)
(* Model of the theme-reactive animation layer of the portfolio site:      *)
(* src/src/components/home/SectionVisuals.tsx and, for the shuffling       *)
(* shapes, src/src/components/home/AnimatedPatterns.tsx.                   *)
(*                                                                         *)
(* Numbers.  Opacities and alpha values are fixed-point hundredths         *)
(* (0.3 is 30, 1.0 is 100).  Colour channels are integers; the NaN that    *)
(* parseInt gives for an empty slice is the value NaN below.  Times are    *)
(* in milliseconds, advancing TickMs at a step.                            *)
(***************************************************************************)
EXTENDS Integers, Sequences, FiniteSets, TLC

VARIABLES
    css,        \* custom properties of the document root: property -> CSS value
    call,       \* the last call of a colour utility: its name and arguments
    ret,        \* what that call returned
    \* one instance of the hook useThemeColors
    hook,       \* "rendered" (state initialised), "mounted" (effect ran), "unmounted"
    opacities,  \* the instance's base opacities {text, accent, muted, bg}
    palette,    \* the React state {textColor, accentColor, mutedColor, bgColor, isDark}
    mutations,  \* mutation records queued for the hook's MutationObserver
    timers,     \* number of pending setTimeout(updateColors, 50)
    \* the animated visuals
    now,            \* the clock (Date.now / performance.now), in milliseconds
    reducedMotion,  \* what matchMedia('(prefers-reduced-motion: reduce)') answers
    vis,            \* one visual instance: its React state, refs, closure and DOM pose
    peer,           \* a second run of the same visual, for comparing frame schedules
    \* src/src/components/home/AnimatedPatterns.tsx
    patterns,       \* the AnimatedPatterns component: its state, timers and the themes it applied
    graph,          \* the network graph's simulation: one GraphNode and the pointer's grip on it
    prefetch        \* src/src/scripts/prefetch.js: the links, the set of URLs and the document head

colorVars == <<call, ret>>
themeVars == <<hook, opacities, palette, mutations, timers>>
pageVars == <<graph, prefetch>>
animVars == <<now, reducedMotion, vis, peer, patterns, pageVars>>
vars == <<css, call, ret, hook, opacities, palette, mutations, timers,
          now, reducedMotion, vis, peer, patterns, graph, prefetch>>

(***************************************************************************)
(* CSS values.  A value is kept with its notation, because the utilities   *)
(* parse text: form is the notation, digits the hex digits after '#',      *)
(* r,g,b,a the numbers written inside rgb(...)/rgba(...), and canon says   *)
(* that the text is spaced and formatted exactly as the template literal   *)
(* `rgba(${r}, ${g}, ${b}, ${a})` prints it.                               *)
(***************************************************************************)
Props == {"--theme-text", "--theme-accent", "--theme-text-muted", "--theme-bg"}

NaN == -1

ChanSpread == 1
Channels == {0, 255} \cup ((128 - ChanSpread)..(128 + ChanSpread))
Alphas == {50, 100}

CssValue(f, d, r, g, b, a, c) ==
    [form |-> f, digits |-> d, r |-> r, g |-> g, b |-> b, a |-> a, canon |-> c]

Unset == CssValue("unset", <<>>, 0, 0, 0, 0, FALSE)
Keyword == CssValue("keyword", <<>>, 0, 0, 0, 0, FALSE)
Hex(d) == CssValue("hex", d, 0, 0, 0, 0, FALSE)
Rgb(r, g, b, c) == CssValue("rgb", <<>>, r, g, b, 0, c)
Rgba(r, g, b, a, c) == CssValue("rgba", <<>>, r, g, b, a, c)
RgbModern(r, g, b) == CssValue("rgbmodern", <<>>, r, g, b, 0, FALSE)

\* #RRGGBB written for the channels r, g, b
HexOf(r, g, b) == Hex(<<r \div 16, r % 16, g \div 16, g % 16, b \div 16, b % 16>>)

\* the values the model draws: every notation, around the brightness threshold
CssValues ==
    {Unset, Keyword, Hex(<<0, 0, 0>>), Hex(<<15, 15, 15>>)}
    \cup {HexOf(r, g, b) : r \in Channels, g \in Channels, b \in Channels}
    \cup {Rgb(x[1], x[2], x[3], c) : x \in Channels \X Channels \X Channels, c \in BOOLEAN}
    \cup {Rgba(x[1], x[2], x[3], x[4], c) :
            x \in Channels \X Channels \X Channels \X Alphas, c \in BOOLEAN}
    \cup {RgbModern(r, r, r) : r \in Channels}

(***************************************************************************)
(* String operations of the utilities.                                     *)
(***************************************************************************)
\* hex.slice(i, j) for 0-based i, j
Slice(d, i, j) == SubSeq(d, i + 1, IF j < Len(d) THEN j ELSE Len(d))

\* parseInt(s, 16) of a string of hex digits; NaN for the empty string
RECURSIVE HexValue(_)
HexValue(s) == IF Len(s) = 0 THEN 0 ELSE 16 * HexValue(SubSeq(s, 1, Len(s) - 1)) + s[Len(s)]
ParseHex(s) == IF Len(s) = 0 THEN NaN ELSE HexValue(s)

\* color.match(/rgba?\((\d+),\s*(\d+),\s*(\d+)/): comma-separated integer channels
MatchRgbaOpt(v) == v.form \in {"rgb", "rgba"}
\* color.match(/rgb\((\d+),\s*(\d+),\s*(\d+)/): the text must hold "rgb(" itself
MatchRgb(v) == v.form = "rgb"

\* the template literal `rgba(${r}, ${g}, ${b}, ${opacity})`
Template(r, g, b, opacity) == Rgba(r, g, b, opacity, TRUE)

(***************************************************************************)
(* getThemeColor(property, opacity)                                        *)
(***************************************************************************)
\* a slip in the hex branch: the blue channel read from the green slice
getThemeColorOf_HexSlice(color, opacity) ==
    IF color.form = "unset" THEN Template(31, 31, 31, opacity)
    ELSE IF color.form = "rgba" /\ opacity = 100 THEN color
    ELSE IF color.form = "rgba" /\ MatchRgbaOpt(color)
        THEN Template(color.r, color.g, color.b, opacity)
    ELSE IF color.form = "hex"
        THEN Template(ParseHex(Slice(color.digits, 0, 2)),
                      ParseHex(Slice(color.digits, 2, 4)),
                      ParseHex(Slice(color.digits, 2, 4)), opacity)
    ELSE IF color.form = "rgb" /\ MatchRgb(color)
        THEN Template(color.r, color.g, color.b, opacity)
    ELSE color

getThemeColorOf(color, opacity) ==
    IF color.form = "unset" THEN Template(31, 31, 31, opacity)
    ELSE IF color.form = "rgba" /\ opacity = 100 THEN color
    ELSE IF color.form = "rgba" /\ MatchRgbaOpt(color)
        THEN Template(color.r, color.g, color.b, opacity)
    ELSE IF color.form = "hex"
        THEN Template(ParseHex(Slice(color.digits, 0, 2)),
                      ParseHex(Slice(color.digits, 2, 4)),
                      ParseHex(Slice(color.digits, 4, 6)), opacity)
    ELSE IF color.form = "rgb" /\ MatchRgb(color)
        THEN Template(color.r, color.g, color.b, opacity)
    ELSE color

getThemeColor(c, property, opacity) == getThemeColorOf(c[property], opacity)

(***************************************************************************)
(* isDarkTheme()                                                           *)
(***************************************************************************)
isDarkThemeOf(bgColor) ==
    IF bgColor.form = "unset" THEN FALSE
    ELSE LET parsed ==
                 IF bgColor.form = "hex"
                     THEN <<ParseHex(Slice(bgColor.digits, 0, 2)),
                            ParseHex(Slice(bgColor.digits, 2, 4)),
                            ParseHex(Slice(bgColor.digits, 4, 6))>>
                 ELSE IF bgColor.form \in {"rgb", "rgba", "rgbmodern"} /\ MatchRgb(bgColor)
                     THEN <<bgColor.r, bgColor.g, bgColor.b>>
                 ELSE <<0, 0, 0>>
         IN  \* a NaN channel makes the brightness NaN, and NaN < 128 is false
             /\ NaN \notin {parsed[1], parsed[2], parsed[3]}
             /\ parsed[1] * 299 + parsed[2] * 587 + parsed[3] * 114 < 128 * 1000

isDarkTheme(c) == isDarkThemeOf(c["--theme-bg"])

(***************************************************************************)
(* useThemeColors.getAdjustedOpacity(baseOpacity, isDark)                  *)
(***************************************************************************)
Min(a, b) == IF a < b THEN a ELSE b
Max(a, b) == IF a > b THEN a ELSE b

\* a slip in the first threshold: < 0.3 where the code has <= 0.3
getAdjustedOpacity_StrictThreshold(baseOpacity, isDark) ==
    IF ~isDark THEN baseOpacity
    ELSE IF baseOpacity < 30 THEN Min(100, baseOpacity + 40)
    ELSE IF baseOpacity <= 50 THEN Min(100, baseOpacity + 30)
    ELSE Min(100, baseOpacity + 20)

getAdjustedOpacity(baseOpacity, isDark) ==
    IF ~isDark THEN baseOpacity
    ELSE IF baseOpacity <= 30 THEN Min(100, baseOpacity + 40)
    ELSE IF baseOpacity <= 50 THEN Min(100, baseOpacity + 30)
    ELSE Min(100, baseOpacity + 20)


(***************************************************************************)
(* useThemeColors(opacities): the palette and its recompute.               *)
(***************************************************************************)
\* the base opacities of the instances in the file (?? 0.8, 0.6, 0.3, 0.9)
BaseOpacities(t, a, m, b) == [text |-> t, accent |-> a, muted |-> m, bg |-> b]
DefaultOpacities == BaseOpacities(80, 60, 30, 90)
OpacityConfigs ==
    {DefaultOpacities, BaseOpacities(80, 100, 40, 90), BaseOpacities(80, 100, 30, 90),
     BaseOpacities(80, 10, 30, 90), BaseOpacities(100, 100, 30, 90)}

NoPalette == [textColor |-> Unset, accentColor |-> Unset, mutedColor |-> Unset,
              bgColor |-> Unset, isDark |-> FALSE]

\* what updateColors stores (the useState initialisers compute the same)
ComputePalette(c, base) ==
    LET dark == isDarkTheme(c) IN
    [isDark |-> dark,
     textColor |-> getThemeColor(c, "--theme-text", getAdjustedOpacity(base.text, dark)),
     accentColor |-> getThemeColor(c, "--theme-accent", getAdjustedOpacity(base.accent, dark)),
     mutedColor |-> getThemeColor(c, "--theme-text-muted", getAdjustedOpacity(base.muted, dark)),
     bgColor |-> getThemeColor(c, "--theme-bg", getAdjustedOpacity(base.bg, dark))]

\* updateColors(): the setters of an unmounted instance store nothing
updateColors(c, base, pal, h) == IF h = "unmounted" THEN pal ELSE ComputePalette(c, base)

(***************************************************************************)
(* Fixed-point arithmetic of the animation code.  Progress values, eased   *)
(* values and sines are in thousandths (1.0 is 1000), radii in             *)
(* thousandths of an SVG unit, angles in microradians, times in            *)
(* milliseconds.  Math.sin is Bhaskara's rational approximation, exact at  *)
(* the multiples of pi/2 (so zeros, signs and extrema are those of the     *)
(* sine); Math.exp(-x) is the reciprocal of the cubic Taylor polynomial.   *)
(***************************************************************************)
\* 1000 * sin(pi * u / 1000), for u >= 0
SinPi(u) ==
    LET m == u % 2000
        h == IF m <= 1000 THEN m ELSE m - 1000
        base == (16 * h * (1000 - h)) \div (5000 - (4 * h * (1000 - h)) \div 1000)
    IN  IF m <= 1000 THEN base ELSE -base

\* 1000 * cos(pi * u / 1000), for u >= 0
CosPi(u) == SinPi(u + 500)

\* 1000 * exp(-x / 1000), for x >= 0
ExpNeg(x) ==
    (1000 * 1000) \div (1000 + x + (x * x) \div 2000 + (((x * x) \div 1000) * x) \div 6000)

\* 0.5 - 0.5 * Math.cos(x * Math.PI)
CosineEase(x) == (1000 - CosPi(x)) \div 2

\* LeadershipScalesVisual.smoothEase(t)
smoothEase(t) ==
    LET clamped == Max(0, Min(1000, t)) IN
    IF clamped < 500
        THEN (4 * clamped * clamped * clamped) \div 1000000
        ELSE 1000 - ((2000 - 2 * clamped) * (2000 - 2 * clamped) * (2000 - 2 * clamped))
                        \div 2000000

(***************************************************************************)
(* The poses the five controllers write, as functions of their clock.      *)
(***************************************************************************)
Controllers == {"wave", "timeline", "dot", "growth", "cradle"}

\* WhatIDoVisual: waveFunction(t) and the progress set at a frame
waveDuration == 3000
waveInterval == 5000
waveInitialDelay == 1000

waveFunction(t) ==
    IF t >= 1000 THEN 0
    ELSE (((ExpNeg((t * 12) \div 10) * SinPi((t * 16) \div 10)) \div 1000) * SinPi(t)) \div 1000

WavePose(elapsed) ==
    [progress |-> IF elapsed < waveDuration
                      THEN waveFunction(Min((elapsed * 1000) \div waveDuration, 1000))
                      ELSE 0]

\* HowIWorkVisual: the discovery dot
growDuration == 5000
travelDuration == 600
springDuration == 200
deflateDuration == 300
dotPauseDuration == 1000
totalCycle == growDuration + travelDuration + springDuration + deflateDuration + dotPauseDuration
dotStartRadius == 6000
dotEndRadius == 19200

\* variant: the deflate phase keeps the large radius
DotPose_NoDeflate(elapsed) ==
    IF elapsed < growDuration THEN
        [phase |-> "grow", angle |-> 0, spring |-> 0,
         radius |-> dotStartRadius + ((dotEndRadius - dotStartRadius)
                        * CosineEase((elapsed * 1000) \div growDuration)) \div 1000]
    ELSE IF elapsed < growDuration + travelDuration THEN
        LET tp == ((elapsed - growDuration) * 1000) \div travelDuration IN
        [phase |-> "travel", spring |-> 0, radius |-> dotEndRadius,
         angle |-> IF tp < 500 THEN (2 * tp * tp) \div 1000
                   ELSE 1000 - ((2000 - 2 * tp) * (2000 - 2 * tp) * (2000 - 2 * tp))
                                   \div 2000000]
    ELSE IF elapsed < growDuration + travelDuration + springDuration THEN
        LET sp == ((elapsed - growDuration - travelDuration) * 1000) \div springDuration IN
        [phase |-> "spring", angle |-> 0, radius |-> dotEndRadius,
         spring |-> (3 * ((SinPi((sp * 25) \div 10) * ExpNeg(sp * 3)) \div 1000))]
    ELSE IF elapsed < growDuration + travelDuration + springDuration + deflateDuration THEN
        LET dp == ((elapsed - growDuration - travelDuration - springDuration) * 1000)
                      \div deflateDuration IN
        [phase |-> "deflate", angle |-> 0, spring |-> 0,
         radius |-> IF dp < 0 THEN 0 ELSE dotEndRadius]
    ELSE [phase |-> "pause", angle |-> 0, spring |-> 0, radius |-> dotStartRadius]

DotPose(elapsed) ==
    IF elapsed < growDuration THEN
        [phase |-> "grow", angle |-> 0, spring |-> 0,
         radius |-> dotStartRadius + ((dotEndRadius - dotStartRadius)
                        * CosineEase((elapsed * 1000) \div growDuration)) \div 1000]
    ELSE IF elapsed < growDuration + travelDuration THEN
        LET tp == ((elapsed - growDuration) * 1000) \div travelDuration IN
        [phase |-> "travel", spring |-> 0, radius |-> dotEndRadius,
         angle |-> IF tp < 500 THEN (2 * tp * tp) \div 1000
                   ELSE 1000 - ((2000 - 2 * tp) * (2000 - 2 * tp) * (2000 - 2 * tp))
                                   \div 2000000]
    ELSE IF elapsed < growDuration + travelDuration + springDuration THEN
        LET sp == ((elapsed - growDuration - travelDuration) * 1000) \div springDuration IN
        [phase |-> "spring", angle |-> 0, radius |-> dotEndRadius,
         spring |-> (3 * ((SinPi((sp * 25) \div 10) * ExpNeg(sp * 3)) \div 1000))]
    ELSE IF elapsed < growDuration + travelDuration + springDuration + deflateDuration THEN
        LET dp == ((elapsed - growDuration - travelDuration - springDuration) * 1000)
                      \div deflateDuration IN
        [phase |-> "deflate", angle |-> 0, spring |-> 0,
         radius |-> dotEndRadius - ((dotEndRadius - dotStartRadius) * CosineEase(dp)) \div 1000]
    ELSE [phase |-> "pause", angle |-> 0, spring |-> 0, radius |-> dotStartRadius]

\* the dot as the JSX renders it: r="4" at translate(200, 20)
DotInitialPose == [phase |-> "rendered", angle |-> 0, spring |-> 0, radius |-> 4000]

\* LeadershipScalesVisual: the growth circles
stepDuration == 1500
growthPauseDuration == 500

states(n) ==
    CASE n = 4 -> [inner |-> 20, middle |-> 40, outer |-> 65]
      [] n = 5 -> [inner |-> 28, middle |-> 65, outer |-> 110]
      [] n = 6 -> [inner |-> 38, middle |-> 95, outer |-> 165]
      [] OTHER -> [inner |-> 50, middle |-> 135, outer |-> 240]

\* Math.max(lo, Math.min(hi, from + (to - from) * eased)), in thousandths
Interpolate(from, to, eased) ==
    Max(1000 * Min(from, to), Min(1000 * Max(from, to), 1000 * from + (to - from) * eased))

\* Math.min(elapsed / stepDuration, 1); negative during the pause
GrowthProgress(elapsed) == Min((elapsed * 1000) \div stepDuration, 1000)

\* variant: linear interpolation on the raw elapsed / stepDuration, nothing clamped
GrowthPose_RawProgress(currentNumber, targetNumber, elapsed) ==
    LET raw == (elapsed * 1000) \div stepDuration
        progress == GrowthProgress(elapsed)
        fromState == states(currentNumber)
        toState == states(targetNumber)
    IN  [inner |-> 1000 * fromState.inner + (toState.inner - fromState.inner) * raw,
         middle |-> 1000 * fromState.middle + (toState.middle - fromState.middle) * raw,
         outer |-> 1000 * fromState.outer + (toState.outer - fromState.outer) * raw,
         label |-> IF progress < 300 THEN currentNumber ELSE targetNumber,
         labelOpacity |-> IF progress < 300 THEN 1000
                          ELSE smoothEase(((progress - 300) * 1000) \div 700)]

\* variant: the label changes only after 30% of the step
GrowthPose_LabelAfterThreshold(currentNumber, targetNumber, elapsed) ==
    LET progress == GrowthProgress(elapsed)
        eased == smoothEase(progress)
        fromState == states(currentNumber)
        toState == states(targetNumber)
    IN  [inner |-> Interpolate(fromState.inner, toState.inner, eased),
         middle |-> Interpolate(fromState.middle, toState.middle, eased),
         outer |-> Interpolate(fromState.outer, toState.outer, eased),
         label |-> IF progress <= 300 THEN currentNumber ELSE targetNumber,
         labelOpacity |-> IF progress <= 300 THEN 1000
                          ELSE smoothEase(((progress - 300) * 1000) \div 700)]

GrowthPose(currentNumber, targetNumber, elapsed) ==
    LET progress == GrowthProgress(elapsed)
        eased == smoothEase(progress)
        fromState == states(currentNumber)
        toState == states(targetNumber)
    IN  [inner |-> Interpolate(fromState.inner, toState.inner, eased),
         middle |-> Interpolate(fromState.middle, toState.middle, eased),
         outer |-> Interpolate(fromState.outer, toState.outer, eased),
         label |-> IF progress < 300 THEN currentNumber ELSE targetNumber,
         labelOpacity |-> IF progress < 300 THEN 1000
                          ELSE smoothEase(((progress - 300) * 1000) \div 700)]

\* the circles at a state, the label as it is
GrowthSnap(pose, n, withLabel) ==
    [pose EXCEPT !.inner = 1000 * states(n).inner,
                 !.middle = 1000 * states(n).middle,
                 !.outer = 1000 * states(n).outer,
                 !.label = IF withLabel THEN n ELSE @]

\* the circles as the JSX renders them: state 4, label "4"
GrowthInitialPose ==
    [inner |-> 20000, middle |-> 40000, outer |-> 65000, label |-> 4, labelOpacity |-> 0]

\* BeyondTheRoleVisual: the cradle; t is in 1/10000 of the cycle
cradleCycle == 2000
maxAngle == 523599

CollisionIntensity(collisionT) == CosineEase(collisionT) * 20

CradleAngles(elapsed) ==
    LET t == (elapsed * 10000) \div cradleCycle IN
    IF t < 5000 THEN
        LET nudge == IF t >= 4800 /\ t <= 5200
                         THEN CollisionIntensity(((t - 4800) * 1000) \div 400) ELSE 0
        IN  <<-((maxAngle * SinPi((t * 2) \div 10)) \div 1000), nudge, nudge, 0>>
    ELSE
        LET nudge == IF t >= 9800 THEN CollisionIntensity(((t - 9800) * 1000) \div 400)
                     ELSE IF t <= 200 THEN CollisionIntensity(((t + 200) * 1000) \div 400)
                     ELSE 0
        IN  <<0, -nudge, -nudge, (maxAngle * SinPi(((t - 5000) * 2) \div 10)) \div 1000>>

CradlePose(elapsed) == [angles |-> CradleAngles(elapsed)]
CradleRestPose == [angles |-> <<0, 0, 0, 0>>]

\* ExperienceSnapshotVisual: the timeline; scroll offsets in thousandths of a pixel
cycleDuration == 30000
contentStartYear == 2005
contentEndYear == 2026
yearDisplayStart == contentStartYear - 1
yearDisplayEnd == contentEndYear + 1
null == -1

viewportWidth(isMobile) == IF isMobile THEN 600 ELSE 1400

\* Math.round(55 * scale), scale = viewportWidth / 900, times 2.2 on mobile
yearWidth(isMobile) ==
    (2 * 55 * viewportWidth(isMobile) * (IF isMobile THEN 22 ELSE 10) + 9000) \div 18000

\* yearToX measured from the first content year instead of the first displayed year
yearToX_FromContentStart(year, isMobile) == (year - contentStartYear) * yearWidth(isMobile)

yearToX(year, isMobile) == (year - yearDisplayStart) * yearWidth(isMobile)

\* Math.round(8 * scale)
gapBetweenPeriods(isMobile) ==
    (2 * 8 * viewportWidth(isMobile) * (IF isMobile THEN 22 ELSE 10) + 9000) \div 18000

\* yearToX of a date with a fraction of a year: the date in tenths of a year,
\* the position in tenths of a pixel
yearToXAt(date, isMobile) == (date - 10 * yearDisplayStart) * yearWidth(isMobile)

\* timeBetween < 0.2, for dates in tenths of a year
closeThreshold == 2

\* majorPeriods.map(...) of positionedPeriods, from the period at index on,
\* with the gap accumulated so far (in tenths of a pixel)
RECURSIVE PositionFrom(_, _, _, _)
PositionFrom(majorPeriods, index, accumulatedGap, isMobile) ==
    IF index > Len(majorPeriods) THEN <<>>
    ELSE LET period == majorPeriods[index]
             startX == yearToXAt(period.start, isMobile) + accumulatedGap
             endX == yearToXAt(period.end, isMobile) + accumulatedGap
             close == /\ index < Len(majorPeriods)
                      /\ majorPeriods[index + 1].start - period.end < closeThreshold
         IN  <<[start |-> period.start, end |-> period.end, startX |-> startX, endX |-> endX]>>
             \o PositionFrom(majorPeriods, index + 1,
                             IF close THEN accumulatedGap + 10 * gapBetweenPeriods(isMobile)
                             ELSE accumulatedGap,
                             isMobile)

positionedPeriods(majorPeriods, isMobile) == PositionFrom(majorPeriods, 1, 0, isMobile)

\* periodMilestones: x of a milestone, in tenths of a pixel
milestoneX(date, isMobile) == yearToXAt(date, isMobile)

initialOffset(isMobile) ==
    IF isMobile THEN 0 - yearToX(yearDisplayStart, isMobile)
    ELSE viewportWidth(isMobile) \div 2 - yearToX(contentStartYear, isMobile)

\* scrollProgress with the rewind returning easeOut instead of 1 - easeOut
ScrollProgress_RewindUp(elapsed) ==
    LET progress == ((elapsed % cycleDuration) * 1000) \div cycleDuration IN
    IF progress < 800 THEN (progress * 1000) \div 800
    ELSE LET rest == 1000 - ((progress - 800) * 1000) \div 200
         IN  1000 - (rest * rest * rest) \div 1000000

\* scrollProgress of the auto-scroll: forward for 80% of the cycle, then ease-out rewind
ScrollProgress(elapsed) ==
    LET progress == ((elapsed % cycleDuration) * 1000) \div cycleDuration IN
    IF progress < 800 THEN (progress * 1000) \div 800
    ELSE LET rest == 1000 - ((progress - 800) * 1000) \div 200
         IN  (rest * rest * rest) \div 1000000

AutoScroll(elapsed, isMobile) ==
    LET range == yearToX(yearDisplayEnd, isMobile) - yearToX(yearDisplayStart, isMobile)
        distance == IF isMobile THEN Max(0, range - viewportWidth(isMobile)) ELSE range
    IN  1000 * initialOffset(isMobile) - ScrollProgress(elapsed) * distance

\* the hover-drive step: currentScrollOffset += (target - currentScrollOffset) * smoothing
HoverScroll(current, mouseX, justEntered, isMobile) ==
    LET width == viewportWidth(isMobile)
        activeStartX == yearToX(contentStartYear, isMobile)
        activeEndX == yearToX(contentEndYear, isMobile)
        mouseRatio == Max(0, Min(1000, (mouseX * 1000) \div width))
        low == ((50 - mouseRatio) * 1000) \div 50
        high == ((mouseRatio - 950) * 1000) \div 50
        boundedScroll ==
            IF mouseRatio < 50 THEN 1000 * activeStartX - (low * low * 5) \div 1000
            ELSE IF mouseRatio > 950 THEN 1000 * activeEndX + (high * high * 5) \div 1000
            ELSE 1000 * activeStartX + mouseRatio * (activeEndX - activeStartX)
        target == 500 * width - boundedScroll
    IN  current + ((target - current) * (IF justEntered THEN 3 ELSE 5)) \div 100

\* the translation written to .timeline-group
TimelineWrite(current, isMobile) ==
    IF isMobile
        THEN Max(1000 * (0 - yearToX(yearDisplayStart, isMobile)),
                 Min(1000 * (viewportWidth(isMobile) - yearToX(yearDisplayEnd, isMobile)),
                     current))
        ELSE current

TimelineInitialPose == [scroll |-> 0, dotAt |-> 0]

InitialPose(c) ==
    CASE c = "wave" -> WavePose(waveDuration)
      [] c = "dot" -> DotInitialPose
      [] c = "growth" -> GrowthInitialPose
      [] c = "cradle" -> CradleRestPose
      [] OTHER -> TimelineInitialPose

(***************************************************************************)
(* One visual instance.  pending is the browser's queue of frame callbacks *)
(* requested by the instance and not yet run or cancelled; a callback is   *)
(* tracked when its handle is the one held in frameId / animationRef, and  *)
(* orphan when the effect run that requested it has been cleaned up (it    *)
(* then keeps the start time of its own closure).                          *)
(***************************************************************************)
NoTimer == -1
\* lastFrame: the frame callback run at the present instant, if one was
NoFrame == [ran |-> FALSE, visible |-> FALSE, wrote |-> FALSE]

\* requestedAt: the browser runs a callback in a frame after the one that requested it
Callback(tracked, orphan, start, requestedAt) ==
    [tracked |-> tracked, orphan |-> orphan, start |-> start, requestedAt |-> requestedAt]

IdleVisual(c) ==
    [ctrl |-> c, mounted |-> TRUE, cleanupDue |-> FALSE, observing |-> TRUE, isVisible |-> FALSE,
     accentColor |-> 0, isMobile |-> FALSE,
     isHovered |-> FALSE, mouseX |-> null, justEnteredHover |-> FALSE, hoverTimers |-> {},
     isDragging |-> FALSE, touchStartScroll |-> 0, currentScrollOffset |-> 0, inputs |-> 0,
     effectLive |-> FALSE, startTime |-> 0, currentNumber |-> 4, targetNumber |-> 5,
     pending |-> <<>>, initialTimeout |-> NoTimer, interval |-> NoTimer,
     pose |-> InitialPose(c), lastFrame |-> NoFrame]

Untrack(pending) == [i \in DOMAIN pending |-> [pending[i] EXCEPT !.tracked = FALSE]]

\* cancelAnimationFrame(handle held)
CancelTracked(pending) == SelectSeq(pending, LAMBDA c : ~c.tracked)

Orphaned(pending, start) ==
    [i \in DOMAIN pending |->
        IF pending[i].orphan THEN pending[i]
        ELSE [pending[i] EXCEPT !.orphan = TRUE, !.start = start]]

\* the function an animation effect returned, if it returned one
EffectCleanup(v) ==
    IF ~v.effectLive THEN v
    ELSE [v EXCEPT !.pending = Orphaned(CancelTracked(@), v.startTime),
                   !.initialTimeout = NoTimer,
                   !.interval = NoTimer,
                   !.effectLive = FALSE]

\* the body of the animation effect, run at time t with the media query answering reduced
EffectBody(v, t, reduced) ==
    IF ~v.isVisible \/ reduced THEN
        CASE v.ctrl \in {"dot", "cradle"} -> [v EXCEPT !.pending = CancelTracked(@)]
          [] v.ctrl = "growth" ->
                IF v.mounted /\ v.isVisible
                    THEN [v EXCEPT !.pose = GrowthSnap(@, 7, TRUE)] ELSE v
          [] OTHER -> v
    ELSE
        LET fresh == [v EXCEPT !.startTime = t, !.effectLive = TRUE,
                               !.currentNumber = 4, !.targetNumber = 5,
                               !.pose = IF v.ctrl = "growth" /\ v.mounted
                                            THEN GrowthSnap(@, 4, FALSE) ELSE @]
        IN  IF v.ctrl = "wave"
                THEN [fresh EXCEPT !.pending = Untrack(@),
                                   !.initialTimeout = t + waveInitialDelay,
                                   !.interval = t + waveInterval]
                ELSE [fresh EXCEPT !.pending = Append(Untrack(@), Callback(TRUE, FALSE, t, t))]

RunEffect(v, t, reduced) == EffectBody(EffectCleanup(v), t, reduced)

\* variant: the target keeps counting past 7
NextTarget_NoWrap(targetNumber) == targetNumber + 1

\* targetNumber < 7 ? targetNumber + 1 : 4
NextTarget(targetNumber) == IF targetNumber < 7 THEN targetNumber + 1 ELSE 4

\* requestAnimationFrame(animate) from inside the callback cb
Again(pending, cb, tracked, start, t) ==
    Append(IF tracked THEN Untrack(pending) ELSE pending,
           Callback(tracked, cb.orphan, start, t))

\* one run of animate, the head of the queue, at time t
animate(v, t) ==
    LET cb == Head(v.pending)
        start == IF cb.orphan THEN cb.start ELSE v.startTime
        elapsed == t - start
        w == [v EXCEPT !.pending = Tail(@),
                       !.lastFrame = [ran |-> TRUE, visible |-> v.isVisible, wrote |-> v.mounted]]
    IN  CASE v.ctrl = "wave" ->
                LET posed == IF v.mounted THEN [w EXCEPT !.pose = WavePose(elapsed)] ELSE w
                IN  IF elapsed < waveDuration
                        THEN [posed EXCEPT !.pending = Again(@, cb, ~cb.orphan, start, t)]
                        ELSE posed
          [] v.ctrl = "dot" ->
                [w EXCEPT !.pose = IF v.mounted THEN DotPose(elapsed % totalCycle) ELSE @,
                          !.pending = Again(@, cb, TRUE, start, t)]
          [] v.ctrl = "cradle" ->
                [w EXCEPT !.pose = IF v.mounted THEN CradlePose(elapsed % cradleCycle) ELSE @,
                          !.pending = Again(@, cb, TRUE, start, t)]
          [] v.ctrl = "growth" ->
                IF ~v.mounted THEN w
                ELSE LET done == GrowthProgress(elapsed) >= 1000 IN
                     [w EXCEPT !.pose = GrowthPose(v.currentNumber, v.targetNumber, elapsed),
                               !.currentNumber = IF done THEN v.targetNumber ELSE @,
                               !.targetNumber = IF done THEN NextTarget(@) ELSE @,
                               !.startTime = IF done THEN t + growthPauseDuration ELSE @,
                               !.pending = Again(@, cb, TRUE,
                                                 IF done THEN t + growthPauseDuration ELSE start,
                                                 t)]
          [] OTHER ->
                IF ~v.mounted THEN w
                ELSE LET current ==
                             IF v.isHovered /\ v.mouseX # null
                                 THEN HoverScroll(v.currentScrollOffset, v.mouseX,
                                                  v.justEnteredHover, v.isMobile)
                             ELSE IF ~v.isDragging THEN AutoScroll(elapsed, v.isMobile)
                             ELSE v.currentScrollOffset
                     IN  [w EXCEPT !.currentScrollOffset = current,
                                   !.pose = [scroll |-> TimelineWrite(current, v.isMobile),
                                             dotAt |-> elapsed],
                                   !.pending = Again(@, cb, TRUE, start, t)]

\* WhatIDoVisual.triggerWave: restart the wave clock and run animate() at once
triggerWave(v, t) ==
    [v EXCEPT !.startTime = t,
              !.pose = WavePose(0),
              !.pending = Append(Untrack(@), Callback(TRUE, FALSE, t, t))]


\* no visual is animated in the specifications of the colour utilities and the hook
(***************************************************************************)
(* The force-directed layout adapter of the network graph.  Its code is    *)
(* not among the source files; the node record and the boundary policy     *)
(* follow the specification's sections 3 (GraphNode) and 4.4.  Positions   *)
(* and velocities are integers on a small canvas; the restitution factor   *)
(* 0.6 is kept in tenths.                                                  *)
(***************************************************************************)
canvasSize == 8
padding == 1
restitution == 6
MaxSpeed == 3
NodeSizes == {1, 2}

\* the padded range of a node of the given radius, on either axis
LowBound(size) == padding + size
HighBound(size) == canvasSize - padding - size

\* velocity reflection: inverted and damped (rounded toward zero)
Reflect(v) == IF v >= 0 THEN 0 - ((v * restitution) \div 10) ELSE ((0 - v) * restitution) \div 10

\* variant: the bounds leave the node's radius out
BoundaryPolicy_NoRadius(p, v, size) ==
    IF p < padding THEN [p |-> padding, v |-> Reflect(v)]
    ELSE IF p > canvasSize - padding THEN [p |-> canvasSize - padding, v |-> Reflect(v)]
    ELSE [p |-> p, v |-> v]

\* one axis of the boundary policy: clamp to the padded range and reflect
BoundaryPolicy(p, v, size) ==
    IF p < LowBound(size) THEN [p |-> LowBound(size), v |-> Reflect(v)]
    ELSE IF p > HighBound(size) THEN [p |-> HighBound(size), v |-> Reflect(v)]
    ELSE [p |-> p, v |-> v]

NoGrip == [held |-> FALSE, x |-> 0, y |-> 0]

\* solver: what the forces (or the pointer, for a fixed node) proposed at the last tick
GraphNode(x, y, size) ==
    [x |-> x, y |-> y, vx |-> 0, vy |-> 0, size |-> size, fixed |-> FALSE,
     grip |-> NoGrip, ticks |-> 0, solver |-> [x |-> x, y |-> y, vx |-> 0, vy |-> 0]]

IdleGraph == GraphNode(canvasSize \div 2, canvasSize \div 2, 1)

\* one simulation tick: the forces change the velocity by (ax, ay), the
\* position advances (a fixed node sits where the pointer holds it), then the
\* boundary policy is applied on both axes
SimulationTick(n, ax, ay) ==
    LET vx == IF n.fixed THEN 0 ELSE Max(0 - MaxSpeed, Min(MaxSpeed, n.vx + ax))
        vy == IF n.fixed THEN 0 ELSE Max(0 - MaxSpeed, Min(MaxSpeed, n.vy + ay))
        x == IF n.fixed THEN n.grip.x ELSE n.x + vx
        y == IF n.fixed THEN n.grip.y ELSE n.y + vy
        bx == BoundaryPolicy(x, vx, n.size)
        by == BoundaryPolicy(y, vy, n.size)
    IN  [n EXCEPT !.x = bx.p, !.vx = bx.v, !.y = by.p, !.vy = by.v, !.ticks = 1,
                  !.solver = [x |-> x, y |-> y, vx |-> vx, vy |-> vy]]

(***************************************************************************)
(* src/src/scripts/prefetch.js.  A link is a URL ("" for an anchor with no *)
(* href); listening is the set of links whose once-listener has not fired. *)
(***************************************************************************)
Urls == {"", "/blog", "/library"}
NumLinks == 3

IdlePrefetch ==
    [links |-> [l \in 1..NumLinks |-> ""], listening |-> 1..NumLinks,
     prefetchedUrls |-> {}, head |-> <<>>, entered |-> {}]

\* variant: the listener does not consult prefetchedUrls
OnMouseEnter_NoSetCheck(f, link) ==
    LET url == f.links[link]
        fresh == url # ""
    IN  [f EXCEPT !.listening = @ \ {link},
                  !.entered = @ \cup {link},
                  !.head = IF fresh THEN Append(@, url) ELSE @,
                  !.prefetchedUrls = IF fresh THEN @ \cup {url} ELSE @]

\* the mouseenter listener of a link
OnMouseEnter(f, link) ==
    LET url == f.links[link]
        fresh == url # "" /\ url \notin f.prefetchedUrls
    IN  [f EXCEPT !.listening = @ \ {link},
                  !.entered = @ \cup {link},
                  !.head = IF fresh THEN Append(@, url) ELSE @,
                  !.prefetchedUrls = IF fresh THEN @ \cup {url} ELSE @]

PageIdle ==
    /\ graph = IdleGraph
    /\ prefetch = IdlePrefetch

(***************************************************************************)
(* AnimatedPatterns: three shapes in three slots.  order[slot] is the      *)
(* index of the shape in that slot (slots are 1..3 here, 0..2 in the       *)
(* source); the shapes keep the source's indices 0, 1, 2.                  *)
(***************************************************************************)
shuffleInterval == 10000
blurDelay == 400

allPerms ==
    << <<0, 1, 2>>, <<0, 2, 1>>,
       <<1, 0, 2>>, <<1, 2, 0>>,
       <<2, 0, 1>>, <<2, 1, 0>> >>

\* what indexing an empty array gives
undefined == <<>>

\* the filter with || in place of &&
candidates_AnySlotDiffers(currentOrder) ==
    SelectSeq(allPerms, LAMBDA perm :
        \/ perm[1] # currentOrder[1]
        \/ perm[2] # currentOrder[2]
        \/ perm[3] # currentOrder[3])

candidates(currentOrder) ==
    SelectSeq(allPerms, LAMBDA perm :
        /\ perm[1] # currentOrder[1]
        /\ perm[2] # currentOrder[2]
        /\ perm[3] # currentOrder[3])

\* Math.random() in tenths: 0.0 .. 0.9
RandomDraws == 0..9

\* variant: the draw is ignored and the first candidate taken
nextOrder_FirstCandidate(currentOrder, random) ==
    LET found == candidates(currentOrder) IN
    IF Len(found) = 0 THEN undefined ELSE found[1]

\* candidates[Math.floor(Math.random() * candidates.length)]
nextOrder(currentOrder, random) ==
    LET found == candidates(currentOrder) IN
    IF Len(found) = 0 THEN undefined
    ELSE found[(random * Len(found)) \div 10 + 1]

IdlePatterns ==
    [mounted |-> TRUE, order |-> <<0, 1, 2>>, isMoving |-> FALSE,
     interval |-> shuffleInterval, blurTimers |-> {},
     applyRandomTheme |-> FALSE, themesApplied |-> 0, inputs |-> 0]

\* setOrder(updater); setIsMoving(true); setTimeout(() => setIsMoving(false), 400)
shuffleShapes(p, random, t) ==
    [p EXCEPT !.order = nextOrder(@, random),
              !.isMoving = TRUE,
              !.blurTimers = @ \cup {t + blurDelay}]

AnimIdle ==
    /\ now = 0
    /\ reducedMotion = FALSE
    /\ vis = IdleVisual("wave")
    /\ peer = IdleVisual("wave")
    /\ patterns = IdlePatterns
    /\ PageIdle

(***************************************************************************)
(* The colour utilities as calls: the specification SpecColor draws the    *)
(* CSS state and applies one utility to drawn arguments.                   *)
(***************************************************************************)
NoCall == [fn |-> "none", property |-> "", opacity |-> 0, dark |-> FALSE]
Opacities == {0, 5, 30, 50, 70, 100}

InitColor ==
    /\ css \in {[p \in Props |-> v] : v \in CssValues}
    /\ call = NoCall
    /\ ret = "none"
    /\ hook = "unmounted"
    /\ opacities = DefaultOpacities
    /\ palette = NoPalette
    /\ mutations = <<>>
    /\ timers = 0
    /\ AnimIdle

CallGetAdjustedOpacity ==
    \E o \in 0..100, d \in BOOLEAN :
        /\ call = NoCall
        /\ call' = [fn |-> "getAdjustedOpacity", property |-> "", opacity |-> o, dark |-> d]
        /\ ret' = getAdjustedOpacity(o, d)
        /\ UNCHANGED <<css, themeVars, animVars>>

CallIsDarkTheme ==
    /\ call = NoCall
    /\ call' = [fn |-> "isDarkTheme", property |-> "--theme-bg", opacity |-> 0, dark |-> FALSE]
    /\ ret' = isDarkTheme(css)
    /\ UNCHANGED <<css, themeVars, animVars>>

CallGetThemeColor ==
    \E p \in Props, o \in Opacities :
        /\ call = NoCall
        /\ call' = [fn |-> "getThemeColor", property |-> p, opacity |-> o, dark |-> FALSE]
        /\ ret' = getThemeColor(css, p, o)
        /\ UNCHANGED <<css, themeVars, animVars>>

NextColor == CallGetAdjustedOpacity \/ CallIsDarkTheme \/ CallGetThemeColor

SpecColor == InitColor /\ [][NextColor]_vars

(***************************************************************************)
(* The hook's subscription effect and its triggers (SpecTheme).  The       *)
(* theming subsystem changes the custom properties by setting the          *)
(* data-theme attribute or the inline style of the document root; the      *)
(* browser queues a mutation record for a connected observer.              *)
(***************************************************************************)
MaxPending == 2

Theme(bg, text, accent, muted) ==
    [p \in Props |->
        CASE p = "--theme-bg" -> bg
          [] p = "--theme-text" -> text
          [] p = "--theme-accent" -> accent
          [] OTHER -> muted]

Themes ==
    {Theme(Unset, Unset, Unset, Unset),
     Theme(HexOf(255, 255, 255), HexOf(0, 0, 0), Rgb(255, 0, 0, TRUE), Rgba(0, 0, 0, 50, TRUE)),
     Theme(HexOf(0, 0, 0), HexOf(255, 255, 255), Rgb(0, 255, 255, FALSE),
           Rgba(255, 255, 255, 50, FALSE)),
     Theme(Rgb(128, 128, 128, TRUE), Keyword, HexOf(127, 128, 129), Rgba(0, 0, 0, 100, TRUE))}

Attributes == {"data-theme", "style"}
StorageKeys == {"theme", "random-theme-data", "other"}

\* the observer callback looks at data-theme only (a plausible slip)
ObservedAttribute_DataThemeOnly(name) == name = "data-theme"

\* the two conditions of the observer callback
ObservedAttribute(name) == name = "data-theme" \/ name = "style"

\* mutations.forEach(...): updateColors for every record of an observed attribute
RECURSIVE MutationCallback(_, _, _, _, _)
MutationCallback(records, c, base, pal, h) ==
    IF records = <<>> THEN pal
    ELSE MutationCallback(Tail(records), c, base,
             IF ObservedAttribute(Head(records)) THEN updateColors(c, base, pal, h) ELSE pal,
             h)

InitTheme ==
    /\ css \in Themes
    /\ call = NoCall
    /\ ret = "none"
    /\ hook = "rendered"
    /\ opacities \in OpacityConfigs
    /\ palette = ComputePalette(css, opacities)
    /\ mutations = <<>>
    /\ timers = 0
    /\ AnimIdle

\* useEffect body: updateColors(), observer.observe, addEventListener x 2
HookMount ==
    /\ hook = "rendered"
    /\ hook' = "mounted"
    /\ palette' = updateColors(css, opacities, palette, "mounted")
    /\ UNCHANGED <<css, colorVars, animVars, opacities, mutations, timers>>

\* the theming subsystem sets data-theme or the inline style of the root
SetTheme ==
    \E t \in Themes, attr \in Attributes :
        /\ hook # "unmounted"
        /\ Len(mutations) < MaxPending
        /\ css' = t
        /\ mutations' = IF hook = "mounted" THEN Append(mutations, attr) ELSE mutations
        /\ UNCHANGED <<colorVars, animVars, hook, opacities, palette, timers>>

\* the MutationObserver callback, with all the queued records
DeliverMutations ==
    /\ hook = "mounted"
    /\ mutations # <<>>
    /\ palette' = MutationCallback(mutations, css, opacities, palette, hook)
    /\ mutations' = <<>>
    /\ UNCHANGED <<css, colorVars, animVars, hook, opacities, timers>>

\* handleStorageChange(e)
StorageEvent ==
    \E key \in StorageKeys :
        /\ hook = "mounted"
        /\ timers < MaxPending
        /\ timers' = IF key = "theme" \/ key = "random-theme-data" THEN timers + 1 ELSE timers
        /\ UNCHANGED <<css, colorVars, animVars, hook, opacities, palette, mutations>>

\* handleThemeChange()
ThemeChangeEvent ==
    /\ hook = "mounted"
    /\ timers < MaxPending
    /\ timers' = timers + 1
    /\ UNCHANGED <<css, colorVars, animVars, hook, opacities, palette, mutations>>

\* a setTimeout(updateColors, 50) comes due; the cleanup clears none of them
TimerFire ==
    /\ timers > 0
    /\ timers' = timers - 1
    /\ palette' = updateColors(css, opacities, palette, hook)
    /\ UNCHANGED <<css, colorVars, animVars, hook, opacities, mutations>>

\* the effect's cleanup: observer.disconnect(), removeEventListener x 2
HookUnmount ==
    /\ hook = "mounted"
    /\ hook' = "unmounted"
    /\ mutations' = <<>>
    /\ UNCHANGED <<css, colorVars, animVars, opacities, palette, timers>>

NextTheme ==
    \/ HookMount
    \/ SetTheme
    \/ DeliverMutations
    \/ StorageEvent
    \/ ThemeChangeEvent
    \/ TimerFire
    \/ HookUnmount

SpecTheme == InitTheme /\ [][NextTheme]_vars


(***************************************************************************)
(* The visuals as a state machine: the specification SpecAnim runs one     *)
(* instance of one of the five visuals against its events.  Timers fire    *)
(* when due (time does not pass a due timer); frame callbacks run whenever *)
(* the browser runs them, which may be late or, in a background tab, not   *)
(* at all while timers keep firing.                                        *)
(***************************************************************************)
TickMs == 500
MaxTicks == 11
TimelineTicks == 2
Horizon(c) == TickMs * (IF c = "timeline" THEN TimelineTicks ELSE MaxTicks)
MouseXs == {1400}
MaxHoverTimers == 1
MaxInputs == 2
TouchDeltas == {-100, 100}

\* the intersection-observer callback: setIsVisible, the re-render, the effect
IntersectionCallback(v, visible, t, reduced) ==
    RunEffect([v EXCEPT !.isVisible = visible,
                        !.pose = IF v.ctrl = "growth"
                                     THEN [@ EXCEPT !.labelOpacity = IF visible THEN 1000 ELSE 0]
                                     ELSE @],
              t, reduced)

\* the hook's accentColor changes: a dependency of the timeline effect only
ThemeChanged(v, colour, t, reduced) ==
    LET themed == [v EXCEPT !.accentColor = colour] IN
    IF v.ctrl = "timeline" THEN RunEffect(themed, t, reduced) ELSE themed

\* updateViewport across the 768px breakpoint: isMobile and the viewBox change
Resized(v, mobile, t, reduced) ==
    RunEffect([v EXCEPT !.isMobile = mobile,
                        !.pose = IF v.ctrl = "cradle" THEN CradleRestPose ELSE @],
              t, reduced)

\* the commit that removes the component: svgRef.current becomes null and state
\* updates are dropped from here on; the effects' cleanup functions run later
Unmounted(v) == [v EXCEPT !.mounted = FALSE, !.observing = FALSE, !.cleanupDue = TRUE]

\* handleMouseEnter at time t: the flag is set and a 500 ms timeout is started
handleMouseEnter(v, t) ==
    [v EXCEPT !.isHovered = TRUE, !.justEnteredHover = TRUE, !.hoverTimers = @ \cup {t + 500}]

handleMouseLeave(v) == [v EXCEPT !.isHovered = FALSE, !.mouseX = null]

handleMouseMove(v, x) == [v EXCEPT !.mouseX = x]

\* the callback of the timeout started by handleMouseEnter
HoverTimeout(v, due) == [v EXCEPT !.justEnteredHover = FALSE, !.hoverTimers = @ \ {due}]

DueTimers(v) == ({v.initialTimeout, v.interval} \cup v.hoverTimers) \ {NoTimer}

Rest == UNCHANGED <<css, colorVars, themeVars, patterns, pageVars>>

InitAnim ==
    /\ css = [p \in Props |-> Unset]
    /\ call = NoCall
    /\ ret = "none"
    /\ hook = "unmounted"
    /\ opacities = DefaultOpacities
    /\ palette = NoPalette
    /\ mutations = <<>>
    /\ timers = 0
    /\ now = 0
    /\ reducedMotion \in BOOLEAN
    /\ vis \in {IdleVisual(c) : c \in Controllers}
    /\ peer = IdleVisual("wave")
    /\ patterns = IdlePatterns
    /\ PageIdle

IntersectionChange ==
    \E visible \in BOOLEAN :
        /\ vis.observing
        /\ visible # vis.isVisible
        /\ vis' = IntersectionCallback(vis, visible, now, reducedMotion)
        /\ UNCHANGED <<now, reducedMotion, peer>> /\ Rest

RunFrameCallback ==
    /\ vis.pending # <<>>
    /\ Head(vis.pending).requestedAt < now
    /\ vis' = animate(vis, now)
    /\ UNCHANGED <<now, reducedMotion, peer>> /\ Rest

InitialTimeoutFire ==
    /\ vis.initialTimeout # NoTimer
    /\ vis.initialTimeout <= now
    /\ vis' = [triggerWave(vis, now) EXCEPT !.initialTimeout = NoTimer]
    /\ UNCHANGED <<now, reducedMotion, peer>> /\ Rest

IntervalFire ==
    /\ vis.interval # NoTimer
    /\ vis.interval <= now
    /\ vis' = [triggerWave(vis, now) EXCEPT !.interval = @ + waveInterval]
    /\ UNCHANGED <<now, reducedMotion, peer>> /\ Rest

ThemeChange ==
    \E colour \in {0, 1} :
        /\ vis.mounted
        /\ colour # vis.accentColor
        /\ vis' = ThemeChanged(vis, colour, now, reducedMotion)
        /\ UNCHANGED <<now, reducedMotion, peer>> /\ Rest

Resize ==
    \E mobile \in BOOLEAN :
        /\ vis.mounted
        /\ vis.ctrl \in {"timeline", "cradle"}
        /\ mobile # vis.isMobile
        /\ vis' = Resized(vis, mobile, now, reducedMotion)
        /\ UNCHANGED <<now, reducedMotion, peer>> /\ Rest

\* handleMouseEnter, with its setTimeout(..., 500)
MouseEnter ==
    /\ vis.inputs < MaxInputs /\ vis.mounted /\ vis.ctrl = "timeline" /\ ~vis.isHovered
    /\ Cardinality(vis.hoverTimers) < MaxHoverTimers
    /\ vis' = [handleMouseEnter(vis, now) EXCEPT !.inputs = @ + 1]
    /\ UNCHANGED <<now, reducedMotion, peer>> /\ Rest

MouseMove ==
    \E x \in MouseXs :
        /\ vis.inputs < MaxInputs /\ vis.mounted /\ vis.ctrl = "timeline" /\ vis.isHovered
        /\ vis' = [handleMouseMove(vis, x) EXCEPT !.inputs = @ + 1]
        /\ UNCHANGED <<now, reducedMotion, peer>> /\ Rest

MouseLeave ==
    /\ vis.inputs < MaxInputs /\ vis.mounted /\ vis.ctrl = "timeline" /\ vis.isHovered
    /\ vis' = [handleMouseLeave(vis) EXCEPT !.inputs = @ + 1]
    /\ UNCHANGED <<now, reducedMotion, peer>> /\ Rest

HoverTimerFire ==
    \E due \in vis.hoverTimers :
        /\ due <= now
        /\ vis' = HoverTimeout(vis, due)
        /\ UNCHANGED <<now, reducedMotion, peer>> /\ Rest

TouchStart ==
    /\ vis.inputs < MaxInputs /\ vis.mounted /\ vis.ctrl = "timeline" /\ vis.isMobile /\ ~vis.isDragging
    /\ vis' = [vis EXCEPT !.inputs = @ + 1, !.isDragging = TRUE, !.touchStartScroll = vis.currentScrollOffset]
    /\ UNCHANGED <<now, reducedMotion, peer>> /\ Rest

TouchMove ==
    \E deltaX \in TouchDeltas :
        /\ vis.inputs < MaxInputs /\ vis.mounted /\ vis.ctrl = "timeline" /\ vis.isMobile /\ vis.isDragging
        /\ vis' = [vis EXCEPT !.inputs = @ + 1, !.currentScrollOffset =
                        TimelineWrite(vis.touchStartScroll - 1000 * deltaX, TRUE)]
        /\ UNCHANGED <<now, reducedMotion, peer>> /\ Rest

TouchEnd ==
    /\ vis.inputs < MaxInputs /\ vis.mounted /\ vis.ctrl = "timeline" /\ vis.isMobile /\ vis.isDragging
    /\ vis' = [vis EXCEPT !.inputs = @ + 1, !.isDragging = FALSE]
    /\ UNCHANGED <<now, reducedMotion, peer>> /\ Rest

\* the user changes the operating-system preference while the page is open
ToggleReducedMotion ==
    /\ reducedMotion' = ~reducedMotion
    /\ UNCHANGED <<now, vis, peer>> /\ Rest

Unmount ==
    /\ vis.mounted
    /\ vis' = Unmounted(vis)
    /\ UNCHANGED <<now, reducedMotion, peer>> /\ Rest

\* the cleanup functions of the removed component, run after the commit and
\* before the clock moves on; a frame requested earlier may run in between
UnmountCleanup ==
    /\ vis.cleanupDue
    /\ vis' = [EffectCleanup(vis) EXCEPT !.cleanupDue = FALSE]
    /\ UNCHANGED <<now, reducedMotion, peer>> /\ Rest

Tick ==
    /\ now + TickMs <= Horizon(vis.ctrl)
    /\ ~vis.cleanupDue
    /\ \A due \in DueTimers(vis) : now < due
    /\ now' = now + TickMs
    /\ vis' = [vis EXCEPT !.lastFrame = NoFrame]
    /\ UNCHANGED <<reducedMotion, peer>> /\ Rest

NextAnim ==
    \/ IntersectionChange \/ RunFrameCallback \/ InitialTimeoutFire \/ IntervalFire
    \/ ThemeChange \/ Resize \/ MouseEnter \/ MouseMove \/ MouseLeave \/ HoverTimerFire
    \/ TouchStart \/ TouchMove \/ TouchEnd \/ ToggleReducedMotion \/ Unmount \/ UnmountCleanup
    \/ Tick

SpecAnim == InitAnim /\ [][NextAnim]_vars

(***************************************************************************)
(* Two runs of one visual under the same events and the same clock, each   *)
(* with its own frame schedule: the specification SpecClock.  Both runs    *)
(* get every intersection callback at the same instant, so they share the  *)
(* start timestamp; the browser runs their frame callbacks independently.  *)
(***************************************************************************)
TimerDue(v, t) ==
    \/ v.initialTimeout # NoTimer /\ v.initialTimeout <= t
    \/ v.interval # NoTimer /\ v.interval <= t

\* the due timer of a wave fires
TimerFired(v, t) ==
    IF v.initialTimeout # NoTimer /\ v.initialTimeout <= t
        THEN [triggerWave(v, t) EXCEPT !.initialTimeout = NoTimer]
        ELSE [triggerWave(v, t) EXCEPT !.interval = @ + waveInterval]

InitClock ==
    /\ css = [p \in Props |-> Unset]
    /\ call = NoCall
    /\ ret = "none"
    /\ hook = "unmounted"
    /\ opacities = DefaultOpacities
    /\ palette = NoPalette
    /\ mutations = <<>>
    /\ timers = 0
    /\ now = 0
    /\ reducedMotion = FALSE
    /\ vis \in {IdleVisual(c) : c \in Controllers}
    /\ peer = vis
    /\ patterns = IdlePatterns
    /\ PageIdle

ClockIntersection ==
    \E visible \in BOOLEAN :
        /\ visible # vis.isVisible
        /\ vis' = IntersectionCallback(vis, visible, now, reducedMotion)
        /\ peer' = IntersectionCallback(peer, visible, now, reducedMotion)
        /\ UNCHANGED <<now, reducedMotion>> /\ Rest

ClockFrame ==
    /\ vis.pending # <<>>
    /\ Head(vis.pending).requestedAt < now
    /\ vis' = animate(vis, now)
    /\ UNCHANGED <<now, reducedMotion, peer>> /\ Rest

ClockPeerFrame ==
    /\ peer.pending # <<>>
    /\ Head(peer.pending).requestedAt < now
    /\ peer' = animate(peer, now)
    /\ UNCHANGED <<now, reducedMotion, vis>> /\ Rest

ClockTimer ==
    /\ TimerDue(vis, now)
    /\ vis' = TimerFired(vis, now)
    /\ UNCHANGED <<now, reducedMotion, peer>> /\ Rest

ClockPeerTimer ==
    /\ TimerDue(peer, now)
    /\ peer' = TimerFired(peer, now)
    /\ UNCHANGED <<now, reducedMotion, vis>> /\ Rest

ClockTick ==
    /\ now + TickMs <= Horizon(vis.ctrl)
    /\ \A due \in DueTimers(vis) \cup DueTimers(peer) : now < due
    /\ now' = now + TickMs
    /\ vis' = [vis EXCEPT !.lastFrame = NoFrame]
    /\ peer' = [peer EXCEPT !.lastFrame = NoFrame]
    /\ UNCHANGED reducedMotion /\ Rest

NextClock ==
    \/ ClockIntersection \/ ClockFrame \/ ClockPeerFrame
    \/ ClockTimer \/ ClockPeerTimer \/ ClockTick

SpecClock == InitClock /\ [][NextClock]_vars

(***************************************************************************)
(* The pose functions as calls: the specification SpecPose applies one of  *)
(* them to arguments drawn from the values a frame can pass.               *)
(***************************************************************************)
ElapsedStep == 50
GrowthNumbers == {4, 5, 6, 7}
\* elapsed is negative during the pause and exceeds the step when a frame is late
GrowthElapsed ==
    {e \in (0 - growthPauseDuration)..(2 * stepDuration) : e % ElapsedStep = 0}

PoseCall(fn, args) == [fn |-> fn, args |-> args]

InitPose ==
    /\ css = [p \in Props |-> Unset]
    /\ call = NoCall
    /\ ret = "none"
    /\ hook = "unmounted"
    /\ opacities = DefaultOpacities
    /\ palette = NoPalette
    /\ mutations = <<>>
    /\ timers = 0
    /\ AnimIdle

CallGrowthPose ==
    /\ call = NoCall
    /\ \E a \in GrowthNumbers, b \in GrowthNumbers, e \in GrowthElapsed :
        /\ call' = PoseCall("GrowthPose", <<a, b, e>>)
        /\ ret' = GrowthPose(a, b, e)
        /\ UNCHANGED <<css, themeVars, animVars>>

\* every millisecond of the cradle cycle
CallCradleAngles ==
    /\ call = NoCall
    /\ \E e \in 0..(cradleCycle - 1) :
        /\ call' = PoseCall("CradleAngles", <<e>>)
        /\ ret' = CradleAngles(e)
        /\ UNCHANGED <<css, themeVars, animVars>>

\* every displayed year, on both layouts
CallYearToX ==
    /\ call = NoCall
    /\ \E year \in yearDisplayStart..yearDisplayEnd, isMobile \in BOOLEAN :
        /\ call' = PoseCall("yearToX", <<year, isMobile>>)
        /\ ret' = yearToX(year, isMobile)
        /\ UNCHANGED <<css, themeVars, animVars>>

\* dates of a timeline configuration, in tenths of a year
PeriodDates == {20050, 20060, 20061, 20070, 20072, 20085}

\* three periods in chronological order, none starting before the previous one ends
PeriodConfigs ==
    {<<[start |-> d[1], end |-> d[2]], [start |-> d[3], end |-> d[4]],
       [start |-> d[5], end |-> d[6]]>> :
        d \in {e \in [1..6 -> PeriodDates] :
                  e[1] < e[2] /\ e[2] <= e[3] /\ e[3] < e[4] /\ e[4] <= e[5] /\ e[5] < e[6]}}

\* the period bars and one milestone of one period, on both layouts
CallPositionedPeriods ==
    /\ call = NoCall
    /\ \E config \in PeriodConfigs, owner \in 1..3, date \in PeriodDates, isMobile \in BOOLEAN :
        /\ config[owner].start <= date /\ date <= config[owner].end
        /\ call' = PoseCall("positionedPeriods", <<config, owner, date, isMobile>>)
        /\ ret' = [periods |-> positionedPeriods(config, isMobile),
                   milestone |-> milestoneX(date, isMobile)]
        /\ UNCHANGED <<css, themeVars, animVars>>

\* two cycles of the auto-scroll
ScrollElapsed == {e \in 0..(2 * cycleDuration - 1) : e % ElapsedStep = 0}

\* the autoplay branch of the timeline's animate: scrollProgress, the offset it
\* stores and the translation the frame then writes to .timeline-group
CallAutoScroll ==
    /\ call = NoCall
    /\ \E e \in ScrollElapsed, isMobile \in BOOLEAN :
        /\ call' = PoseCall("AutoScroll", <<e, isMobile>>)
        /\ ret' = [progress |-> ScrollProgress(e), scroll |-> AutoScroll(e, isMobile),
                   applied |-> TimelineWrite(AutoScroll(e, isMobile), isMobile)]
        /\ UNCHANGED <<css, themeVars, animVars>>

\* every millisecond of two cycles of the discovery dot
CallDotPose ==
    /\ call = NoCall
    /\ \E t \in 0..(2 * totalCycle - 1) :
        /\ call' = PoseCall("DotPose", <<t>>)
        /\ ret' = DotPose(t % totalCycle)
        /\ UNCHANGED <<css, themeVars, animVars>>

NextPose ==
    \/ CallGrowthPose
    \/ CallCradleAngles
    \/ CallYearToX
    \/ CallPositionedPeriods
    \/ CallAutoScroll
    \/ CallDotPose

SpecPose == InitPose /\ [][NextPose]_vars

(***************************************************************************)
(* The AnimatedPatterns component under its interval, pointer events and   *)
(* blur timers: the specification SpecPatterns.  window.applyRandomTheme   *)
(* is defined by another script or not at all.                             *)
(***************************************************************************)
PatternTickMs == 400
PatternTicks == 52
MaxPatternInputs == 3

PatternsRest == UNCHANGED <<css, colorVars, themeVars, reducedMotion, vis, peer, pageVars>>

InitPatterns ==
    /\ css = [p \in Props |-> Unset]
    /\ call = NoCall
    /\ ret = "none"
    /\ hook = "unmounted"
    /\ opacities = DefaultOpacities
    /\ palette = NoPalette
    /\ mutations = <<>>
    /\ timers = 0
    /\ now = 0
    /\ reducedMotion = FALSE
    /\ vis = IdleVisual("wave")
    /\ peer = IdleVisual("wave")
    /\ patterns \in {[IdlePatterns EXCEPT !.applyRandomTheme = defined] : defined \in BOOLEAN}
    /\ PageIdle

\* the setInterval callback
IntervalShuffle ==
    \E random \in RandomDraws :
        /\ patterns.interval # NoTimer
        /\ patterns.interval <= now
        /\ patterns' = [shuffleShapes(patterns, random, now) EXCEPT !.interval = @ + shuffleInterval]
        /\ UNCHANGED now /\ PatternsRest

\* onMouseEnter of the container
handleShapeHover ==
    \E random \in RandomDraws :
        /\ patterns.mounted
        /\ patterns.inputs < MaxPatternInputs
        /\ patterns' = [shuffleShapes(patterns, random, now) EXCEPT !.inputs = @ + 1]
        /\ UNCHANGED now /\ PatternsRest

\* onClick of a shape
handleShapeClick ==
    /\ patterns.mounted
    /\ patterns.inputs < MaxPatternInputs
    /\ patterns' = [patterns EXCEPT !.inputs = @ + 1,
                                    !.themesApplied = IF patterns.applyRandomTheme THEN @ + 1 ELSE @]
    /\ UNCHANGED now /\ PatternsRest

\* () => setIsMoving(false); the timers are not cleared on unmount
BlurTimerFire ==
    \E due \in patterns.blurTimers :
        /\ due <= now
        /\ patterns' = [patterns EXCEPT !.blurTimers = @ \ {due},
                                        !.isMoving = IF patterns.mounted THEN FALSE ELSE @]
        /\ UNCHANGED now /\ PatternsRest

\* the effect's cleanup: clearInterval(interval)
PatternsUnmount ==
    /\ patterns.mounted
    /\ patterns' = [patterns EXCEPT !.mounted = FALSE, !.interval = NoTimer]
    /\ UNCHANGED now /\ PatternsRest

PatternsTick ==
    /\ now + PatternTickMs <= PatternTicks * PatternTickMs
    /\ \A due \in (patterns.blurTimers \cup {patterns.interval}) \ {NoTimer} : now < due
    /\ now' = now + PatternTickMs
    /\ UNCHANGED patterns /\ PatternsRest

NextPatterns ==
    \/ IntervalShuffle \/ handleShapeHover \/ handleShapeClick
    \/ BlurTimerFire \/ PatternsUnmount \/ PatternsTick

SpecPatterns == InitPatterns /\ [][NextPatterns]_vars

(***************************************************************************)
(* The network graph's node under simulation ticks and pointer drags: the  *)
(* specification SpecGraph.  The forces of a tick are any acceleration in  *)
(* Forces on each axis; the node starts anywhere on the canvas, the        *)
(* pointer grips and drags it to any of PointerSpots.                      *)
(***************************************************************************)
Forces == {-2, 0, 2}
StartSpots == {0, canvasSize \div 2, canvasSize}
PointerSpots == {0, canvasSize}

GraphRest == UNCHANGED <<css, colorVars, themeVars, now, reducedMotion, vis, peer, patterns, prefetch>>

InitGraph ==
    /\ css = [p \in Props |-> Unset]
    /\ call = NoCall
    /\ ret = "none"
    /\ hook = "unmounted"
    /\ opacities = DefaultOpacities
    /\ palette = NoPalette
    /\ mutations = <<>>
    /\ timers = 0
    /\ now = 0
    /\ reducedMotion = FALSE
    /\ vis = IdleVisual("wave")
    /\ peer = IdleVisual("wave")
    /\ patterns = IdlePatterns
    /\ prefetch = IdlePrefetch
    /\ graph \in {[GraphNode(x, y, size) EXCEPT !.vx = v, !.vy = 0 - v] :
                    x \in StartSpots, y \in StartSpots, size \in NodeSizes,
                    v \in {0, MaxSpeed}}

GraphTick ==
    \E ax \in Forces, ay \in Forces :
        /\ graph' = SimulationTick(graph, ax, ay)
        /\ GraphRest

\* drag start and drag: the node is fixed where the pointer is
GraphDrag ==
    \E px \in PointerSpots, py \in PointerSpots :
        /\ graph' = [graph EXCEPT !.fixed = TRUE, !.grip = [held |-> TRUE, x |-> px, y |-> py]]
        /\ GraphRest

\* release with inertia: the node is freed with the pointer's velocity
GraphRelease ==
    \E v \in {0 - MaxSpeed, MaxSpeed} :
        /\ graph.fixed
        /\ graph' = [graph EXCEPT !.fixed = FALSE, !.grip = NoGrip, !.vx = v, !.vy = 0 - v]
        /\ GraphRest

NextGraph == GraphTick \/ GraphDrag \/ GraphRelease

SpecGraph == InitGraph /\ [][NextGraph]_vars

(***************************************************************************)
(* The growth circles over unbounded time: the specification SpecGrowth.   *)
(* Only differences of timestamps matter to the controller, so the clock   *)
(* is kept at 0 and a frame that arrives gap ms later moves every          *)
(* timestamp the instance holds back by gap.  SpecGrowthFair adds that the *)
(* browser keeps delivering frames that were requested.                    *)
(***************************************************************************)
FrameGaps == {250, 750}

\* the instance seen from a clock that has advanced by gap
Shift(v, gap) ==
    [v EXCEPT !.startTime = @ - gap,
              !.pending = [i \in DOMAIN @ |->
                              [@[i] EXCEPT !.start = @ - gap, !.requestedAt = @ - gap]]]

InitGrowth ==
    /\ css = [p \in Props |-> Unset]
    /\ call = NoCall
    /\ ret = "none"
    /\ hook = "unmounted"
    /\ opacities = DefaultOpacities
    /\ palette = NoPalette
    /\ mutations = <<>>
    /\ timers = 0
    /\ now = 0
    /\ reducedMotion \in BOOLEAN
    /\ vis = IdleVisual("growth")
    /\ peer = IdleVisual("wave")
    /\ patterns = IdlePatterns
    /\ PageIdle

GrowthIntersection ==
    \E visible \in BOOLEAN :
        /\ visible # vis.isVisible
        /\ vis' = IntersectionCallback(vis, visible, now, reducedMotion)
        /\ UNCHANGED <<now, reducedMotion, peer>> /\ Rest

GrowthFrame ==
    \E gap \in FrameGaps :
        /\ vis.pending # <<>>
        /\ vis' = Shift(animate(vis, now + gap), gap)
        /\ UNCHANGED <<now, reducedMotion, peer>> /\ Rest

GrowthThemeChange ==
    \E colour \in {0, 1} :
        /\ colour # vis.accentColor
        /\ vis' = ThemeChanged(vis, colour, now, reducedMotion)
        /\ UNCHANGED <<now, reducedMotion, peer>> /\ Rest

GrowthReducedMotion ==
    /\ reducedMotion' = ~reducedMotion
    /\ UNCHANGED <<now, vis, peer>> /\ Rest

NextGrowth == GrowthIntersection \/ GrowthFrame \/ GrowthThemeChange \/ GrowthReducedMotion

SpecGrowth == InitGrowth /\ [][NextGrowth]_vars

SpecGrowthFair == SpecGrowth /\ WF_vars(GrowthFrame)

(***************************************************************************)
(* The pointer over the timeline on a wide viewport: the specification     *)
(* SpecHover.  The visual is shown and animating; the pointer enters,      *)
(* moves and leaves at any instant of a 250 ms grid, the timeouts started  *)
(* by handleMouseEnter fire when due, and frames run in between.           *)
(***************************************************************************)
HoverTickMs == 250
HoverTicks == 6
MaxHoverInputs == 4
HoverXs == {100, 1400}

InitHover ==
    /\ css = [p \in Props |-> Unset]
    /\ call = NoCall
    /\ ret = "none"
    /\ hook = "unmounted"
    /\ opacities = DefaultOpacities
    /\ palette = NoPalette
    /\ mutations = <<>>
    /\ timers = 0
    /\ now = 0
    /\ reducedMotion = FALSE
    /\ vis = IntersectionCallback(IdleVisual("timeline"), TRUE, 0, FALSE)
    /\ peer = IdleVisual("wave")
    /\ patterns = IdlePatterns
    /\ PageIdle

HoverEnter ==
    /\ vis.inputs < MaxHoverInputs /\ ~vis.isHovered
    /\ vis' = [handleMouseEnter(vis, now) EXCEPT !.inputs = @ + 1]
    /\ UNCHANGED <<now, reducedMotion, peer>> /\ Rest

HoverMove ==
    /\ vis.inputs < MaxHoverInputs /\ vis.isHovered
    /\ \E x \in HoverXs :
           /\ x # vis.mouseX
           /\ vis' = [handleMouseMove(vis, x) EXCEPT !.inputs = @ + 1]
    /\ UNCHANGED <<now, reducedMotion, peer>> /\ Rest

HoverLeave ==
    /\ vis.inputs < MaxHoverInputs /\ vis.isHovered
    /\ vis' = [handleMouseLeave(vis) EXCEPT !.inputs = @ + 1]
    /\ UNCHANGED <<now, reducedMotion, peer>> /\ Rest

HoverTick ==
    /\ now + HoverTickMs <= HoverTickMs * HoverTicks
    /\ \A due \in vis.hoverTimers : now < due
    /\ now' = now + HoverTickMs
    /\ vis' = [vis EXCEPT !.lastFrame = NoFrame]
    /\ UNCHANGED <<reducedMotion, peer>> /\ Rest

NextHover ==
    \/ HoverEnter \/ HoverMove \/ HoverLeave \/ HoverTimerFire \/ RunFrameCallback \/ HoverTick

SpecHover == InitHover /\ [][NextHover]_vars

(***************************************************************************)
(* The prefetch script: the specification SpecPrefetch.  The page holds    *)
(* NumLinks prefetch links whose URLs are drawn from Urls ("" is a link    *)
(* without href); the pointer enters the links in any order, any number    *)
(* of times.                                                               *)
(***************************************************************************)
InitPrefetch ==
    /\ css = [p \in Props |-> Unset]
    /\ call = NoCall
    /\ ret = "none"
    /\ hook = "unmounted"
    /\ opacities = DefaultOpacities
    /\ palette = NoPalette
    /\ mutations = <<>>
    /\ timers = 0
    /\ now = 0
    /\ reducedMotion = FALSE
    /\ vis = IdleVisual("wave")
    /\ peer = IdleVisual("wave")
    /\ patterns = IdlePatterns
    /\ graph = IdleGraph
    /\ prefetch \in {[IdlePrefetch EXCEPT !.links = links] : links \in [1..NumLinks -> Urls]}

\* a mouseenter event on a link; the listener was registered with { once: true }
MouseEnterLink ==
    \E link \in 1..NumLinks :
        /\ prefetch' = IF link \in prefetch.listening THEN OnMouseEnter(prefetch, link)
                       ELSE prefetch
        /\ UNCHANGED <<css, colorVars, themeVars, now, reducedMotion, vis, peer, patterns, graph>>

NextPrefetch == MouseEnterLink

SpecPrefetch == InitPrefetch /\ [][NextPrefetch]_vars

(***************************************************************************)
(* What a CSS value denotes, by the CSS notation itself (not by the        *)
(* utilities' parsing): the three notations of the contract and the        *)
(* channels they write.                                                    *)
(***************************************************************************)
Parseable(v) ==
    \/ v.form \in {"rgb", "rgba"}
    \/ v.form = "hex" /\ Len(v.digits) = 6

ChannelR(v) == IF v.form = "hex" THEN 16 * v.digits[1] + v.digits[2] ELSE v.r
ChannelG(v) == IF v.form = "hex" THEN 16 * v.digits[3] + v.digits[4] ELSE v.g
ChannelB(v) == IF v.form = "hex" THEN 16 * v.digits[5] + v.digits[6] ELSE v.b

\* C1: getAdjustedOpacity(o, isDark), for every o in [0,1]: dark gives
\* min(1, o+0.4) for o <= 0.3, min(1, o+0.3) for 0.3 < o <= 0.5 and
\* min(1, o+0.2) for o > 0.5; light gives o; dark with 0.3 gives exactly 0.7;
\* the result is never below the base and never above 1.
C1_AdjustedOpacity ==
    call.fn = "getAdjustedOpacity" =>
        LET o == call.opacity IN
        /\ (call.dark /\ o <= 30) => ret = Min(100, o + 40)
        /\ (call.dark /\ 30 < o /\ o <= 50) => ret = Min(100, o + 30)
        /\ (call.dark /\ o > 50) => ret = Min(100, o + 20)
        /\ ~call.dark => ret = o
        /\ (call.dark /\ o = 30) => ret = 70
        /\ ret >= o
        /\ ret <= 100

C1_Witness ==
    /\ call.fn = "getAdjustedOpacity"
    /\ call.dark
    /\ call.opacity = 30
    /\ ret = 70

\* C2: isDarkTheme classifies every background colour with integer channels
\* R,G,B as dark if and only if (299R + 587G + 114B)/1000 < 128, strictly.
C2_BrightnessThreshold ==
    (call.fn = "isDarkTheme" /\ Parseable(css["--theme-bg"])) =>
        LET bg == css["--theme-bg"] IN
        ret = (299 * ChannelR(bg) + 587 * ChannelG(bg) + 114 * ChannelB(bg) < 128000)

\* C3: getThemeColor returns the default rgba(31, 31, 31, opacity) whenever
\* the property is unset or its value is not one of the three parseable forms.
C3_FallbackDefault ==
    (call.fn = "getThemeColor" /\ ~Parseable(css[call.property])) =>
        ret = Rgba(31, 31, 31, call.opacity, TRUE)

\* C4 as stated: for every parseable value and every requested opacity,
\* opacity = 1 included, getThemeColor returns rgba(R, G, B, opacity) with the
\* value's own channels and exactly the requested opacity.
C4_NormalizedAlways ==
    (call.fn = "getThemeColor" /\ Parseable(css[call.property])) =>
        LET v == css[call.property] IN
        ret = Rgba(ChannelR(v), ChannelG(v), ChannelB(v), call.opacity, TRUE)

\* C4 as amended: the result is rgba(R, G, B, opacity), except that a value
\* already written as rgba(...) and requested with opacity = 1 is returned as
\* it is written, with its own alpha.
C4_NormalizedUnlessRgbaAtOne ==
    (call.fn = "getThemeColor" /\ Parseable(css[call.property])) =>
        LET v == css[call.property] IN
        IF v.form = "rgba" /\ call.opacity = 100
            THEN ret = v
            ELSE ret = Rgba(ChannelR(v), ChannelG(v), ChannelB(v), call.opacity, TRUE)

C4_Witness ==
    /\ call.fn = "getThemeColor"
    /\ css[call.property].form = "rgba"
    /\ css[call.property].a = 50
    /\ call.opacity = 100
    /\ ret.a = 50

\* every delivered trigger of the hook has run
Quiescent == hook = "mounted" /\ mutations = <<>> /\ timers = 0

\* a step that runs the recompute
RecomputeStep ==
    \/ timers' < timers
    \/ mutations # <<>> /\ mutations' = <<>> /\ hook' = hook
    \/ hook = "rendered" /\ hook' = "mounted"

\* C5: after any interleaving of theme changes and triggers, once every
\* delivered trigger and delayed recompute has run, the palette of a mounted
\* hook is the resolution of the current CSS state (last write wins), and a
\* recompute with unchanged CSS state leaves a resolved palette unchanged.
C5_PaletteFollowsCss ==
    /\ [](Quiescent => palette = ComputePalette(css, opacities))
    /\ [][(RecomputeStep /\ hook' = "mounted" /\ palette = ComputePalette(css, opacities))
            => palette' = palette]_vars

\* a theme change by inline style was delivered and resolved to a dark palette
C5_Witness ==
    /\ Quiescent
    /\ css # Theme(Unset, Unset, Unset, Unset)
    /\ palette.isDark
    /\ palette.textColor = Rgba(255, 255, 255, getAdjustedOpacity(opacities.text, TRUE), TRUE)

(***************************************************************************)
(* Lifecycle and clock of the animated visuals.                            *)
(***************************************************************************)
Animating(v) == v.pending # <<>> \/ v.initialTimeout # NoTimer \/ v.interval # NoTimer

State7Shown(pose) ==
    /\ pose.inner = 1000 * 50 /\ pose.middle = 1000 * 135 /\ pose.outer = 1000 * 240
    /\ pose.label = 7

\* C6: a frame callback or a wave timer of the controller is pending only
\* while its visibility flag is true and reduced motion is not preferred, and
\* a frame callback that runs while the flag is false writes no pose.
C6_PendingOnlyWhileVisible ==
    /\ Animating(vis) => (vis.isVisible /\ ~reducedMotion)
    /\ (vis.lastFrame.ran /\ vis.lastFrame.wrote) => vis.lastFrame.visible

\* C7: at most one frame-callback chain of the controller is outstanding at
\* any time, and after the instance is torn down none is outstanding and its
\* intersection observer is disconnected.
C7_SingleFrameChain ==
    /\ Len(vis.pending) <= 1
    /\ (~vis.mounted /\ ~vis.cleanupDue) => (vis.pending = <<>> /\ ~vis.observing)

\* C8: when reduced motion is preferred at the moment the controller becomes
\* visible, no continuous animation is started and the pose shown is the
\* steady one: state 7 with label 7 for the growth circles, all four balls at
\* angle 0 for the cradle.
C8_ReducedMotionSteadyPose ==
    [][(~vis.isVisible /\ vis'.isVisible /\ reducedMotion)
        => /\ ~Animating(vis')
           /\ vis.ctrl = "growth" => State7Shown(vis'.pose)
           /\ vis.ctrl = "cradle" => vis'.pose = CradleRestPose]_vars

\* C9: two runs that share the start timestamp and differ only in their
\* frame schedules show the same pose at every instant at which both have
\* run a frame.
C9_ScheduleIndependentPose ==
    (vis.lastFrame.ran /\ vis.lastFrame.wrote /\ peer.lastFrame.ran /\ peer.lastFrame.wrote)
        => vis.pose = peer.pose

\* C10: every Hidden -> Visible transition sets the start timestamp to the
\* present time, and while the controller stays visible and animating a
\* theme-colour change, a resize or pointer/touch input leaves it unchanged.
C10_ClockRestartsOnlyOnShow ==
    [][/\ (~vis.isVisible /\ vis'.isVisible /\ ~reducedMotion) => vis'.startTime = now
       /\ (/\ vis.isVisible /\ vis'.isVisible /\ vis.effectLive
           /\ \/ vis'.accentColor # vis.accentColor
              \/ vis'.isMobile # vis.isMobile
              \/ vis'.inputs # vis.inputs)
            => vis'.startTime = vis.startTime]_vars

(***************************************************************************)
(* The pose functions.                                                     *)
(***************************************************************************)
Between(x, p, q) == Min(p, q) <= x /\ x <= Max(p, q)

\* C11: in a transition from state a to state b each written radius lies
\* between that circle's radii in a and in b, for every elapsed time,
\* negative (the pause) and beyond the step duration included.
C11_RadiiWithinEndpoints ==
    call.fn = "GrowthPose" =>
        LET from == states(call.args[1])
            to == states(call.args[2])
        IN  /\ Between(ret.inner, 1000 * from.inner, 1000 * to.inner)
            /\ Between(ret.middle, 1000 * from.middle, 1000 * to.middle)
            /\ Between(ret.outer, 1000 * from.outer, 1000 * to.outer)

C11_Witness ==
    /\ call.fn = "GrowthPose"
    /\ call.args[1] = 7 /\ call.args[2] = 4
    /\ call.args[3] > stepDuration
    /\ ret.inner = 20000 /\ ret.outer = 65000

\* C12: the label shows a with opacity 1 while progress < 0.3 and b with
\* opacity smoothEase((progress - 0.3) / 0.7) from progress 0.3 on; at
\* elapsed 450 ms it shows b with opacity 0, at completion b with opacity 1.
C12_LabelSwitchesAtThirtyPercent ==
    call.fn = "GrowthPose" =>
        LET a == call.args[1]
            b == call.args[2]
            elapsed == call.args[3]
        IN  /\ 10 * elapsed < 3 * stepDuration => (ret.label = a /\ ret.labelOpacity = 1000)
            /\ 10 * elapsed >= 3 * stepDuration =>
                    /\ ret.label = b
                    /\ ret.labelOpacity =
                          smoothEase(((Min((elapsed * 1000) \div stepDuration, 1000) - 300) * 1000)
                                         \div 700)
            /\ 10 * elapsed = 3 * stepDuration => ret.labelOpacity = 0
            /\ elapsed >= stepDuration => (ret.label = b /\ ret.labelOpacity = 1000)

C12_Witness ==
    /\ call.fn = "GrowthPose"
    /\ call.args = <<4, 5, 450>>
    /\ ret.label = 5 /\ ret.labelOpacity = 0

\* t of a CradleAngles call, in 1/10000 of the cycle
CradleT == (call.args[1] * 10000) \div cradleCycle

\* the collision windows: +-2% around mid-cycle and around the cycle boundary
InCollisionWindow(t) == (4800 <= t /\ t <= 5200) \/ t >= 9800 \/ t <= 200

\* the most an end ball turns in one millisecond: maxAngle * 2 pi / cradleCycle
MaxSwingPerMs == ((maxAngle \div 1000) * 6283) \div cradleCycle

Abs(x) == IF x < 0 THEN 0 - x ELSE x

\* C13: for t < 0.5 only ball 0 swings and ball 3 is at 0, for t >= 0.5 only
\* ball 3 swings and ball 0 is at 0; balls 1 and 2 are at 0 outside the
\* collision windows; at t = 0 all four angles are 0, and in the last
\* millisecond before the wrap every ball is within one millisecond's swing
\* of 0 (the angles approach 0 as t approaches 1).
C13_CradlePhases ==
    call.fn = "CradleAngles" =>
        /\ CradleT < 5000 => ret[4] = 0
        /\ CradleT >= 5000 => ret[1] = 0
        /\ ~InCollisionWindow(CradleT) => (ret[2] = 0 /\ ret[3] = 0)
        /\ call.args[1] = 0 => ret = <<0, 0, 0, 0>>
        /\ call.args[1] = cradleCycle - 1 => \A i \in 1..4 : Abs(ret[i]) <= MaxSwingPerMs

\* how far into a window the nudge must be visible (it starts from 0 at the edge)
NudgeMargin == 100

\* C14: balls 1 and 2 are nudged throughout the windows t in [0.48, 0.52],
\* t >= 0.98 and t <= 0.02, and are at exactly 0 outside them.
C14_NudgeWindows ==
    call.fn = "CradleAngles" =>
        LET t == CradleT
            nudged == ret[2] # 0 /\ ret[3] # 0
        IN  /\ (4800 + NudgeMargin <= t /\ t <= 5200) => nudged
            /\ t >= 9800 + NudgeMargin => nudged
            /\ (0 < t /\ t <= 200) => nudged
            /\ ~InCollisionWindow(t) => (ret[2] = 0 /\ ret[3] = 0)

\* C15: yearToX(yearDisplayStart) = 0, consecutive years are yearWidth apart,
\* and x = (year - yearDisplayStart) * yearWidth with yearDisplayStart = startYear - 1.
C15_YearToXLinear ==
    call.fn = "yearToX" =>
        LET year == call.args[1]
            isMobile == call.args[2]
        IN  /\ yearDisplayStart = contentStartYear - 1
            /\ year = yearDisplayStart => ret = 0
            /\ yearToX(year + 1, isMobile) - ret = yearWidth(isMobile)
            /\ ret = (year - (contentStartYear - 1)) * yearWidth(isMobile)

C15_Witness ==
    /\ call.fn = "yearToX"
    /\ call.args[1] = contentEndYear
    /\ ret = (contentEndYear - contentStartYear + 1) * yearWidth(call.args[2])

\* the most scrollProgress can change between two samples: the rewind starts
\* with slope 3 / 0.2 per cycle, and progress is resolved to 1/1000 of a cycle
ScrollStepBound == (15 * 1000 * (ElapsedStep + 2 * (cycleDuration \div 1000))) \div cycleDuration + 1

\* C16: the auto-scroll progress depends only on p = (elapsed mod 30000) / 30000;
\* it is p / 0.8 for p < 0.8 (from 0 at p = 0), is 1 at p = 0.8 and does not
\* rise again before the wrap, stays in [0, 1], changes by no more than
\* ScrollStepBound between neighbouring samples (also across p = 0.8 and
\* across the wrap), repeats with the cycle, and on desktop the offset is
\* initialOffset - progress * timelineScrollRange.
C16_AutoScrollShape ==
    call.fn = "AutoScroll" =>
        LET e == call.args[1]
            inCycle == e % cycleDuration
            p == (inCycle * 1000) \div cycleDuration
            sp == ret.progress
            nxt == ScrollProgress(e + ElapsedStep)
            timelineScrollRange == yearToX(yearDisplayEnd, FALSE) - yearToX(yearDisplayStart, FALSE)
        IN  /\ sp \in 0..1000
            /\ p < 800 => sp = (p * 1000) \div 800
            /\ inCycle = 0 => sp = 0
            /\ p = 800 => sp = 1000
            /\ (p >= 800 /\ inCycle + ElapsedStep < cycleDuration) => nxt <= sp
            /\ Abs(nxt - sp) <= ScrollStepBound
            /\ ScrollProgress(e + cycleDuration) = sp
            /\ ~call.args[2] => ret.scroll = 1000 * initialOffset(FALSE) - sp * timelineScrollRange

\* a sample in the rewind of the second cycle, part of the way back
C16_Witness ==
    /\ call.fn = "AutoScroll"
    /\ call.args[1] > cycleDuration + (cycleDuration * 8) \div 10
    /\ ~call.args[2]
    /\ ret.progress > 0
    /\ ret.progress < 500

\* the bounds of the touch drive on the narrow layout, in thousandths of a pixel
TouchLow == 1000 * (viewportWidth(TRUE) - yearToX(yearDisplayEnd, TRUE))
TouchHigh == 1000 * (0 - yearToX(yearDisplayStart, TRUE))

\* C17: during a drag on the narrow layout, for every swipe delta the touch
\* move sets the scroll offset to (offset at touch start - delta) clamped
\* between viewportWidth - yearToX(yearDisplayEnd) and -yearToX(yearDisplayStart).
C17_TouchDriveClamped ==
    (vis.ctrl = "timeline" /\ vis.mounted /\ vis.isMobile /\ vis.isDragging
     /\ vis.inputs < MaxInputs) =>
        \A deltaX \in TouchDeltas :
            ENABLED (TouchMove /\ vis'.currentScrollOffset =
                        Max(TouchLow, Min(TouchHigh, vis.touchStartScroll - 1000 * deltaX)))

\* C18: a frame callback that finds its SVG root missing writes nothing and
\* still requests the next frame (the wave's callback looks up no element).
C18_MissingElementRetries ==
    [][(RunFrameCallback /\ vis.ctrl # "wave" /\ ~vis.mounted) =>
            /\ vis'.pose = vis.pose
            /\ Len(vis'.pending) = Len(vis.pending)]_vars

(***************************************************************************)
(* The shapes of AnimatedPatterns.                                         *)
(***************************************************************************)
IsPermutation(order) == Len(order) = 3 /\ {order[i] : i \in 1..3} = {0, 1, 2}

IsDerangementOf(next, previous) == \A i \in 1..3 : next[i] # previous[i]

\* C19: the order is always a permutation of the shapes 0, 1, 2 and its
\* candidate set is never empty; a shuffle (interval tick or mouse enter)
\* puts a different shape in every slot; a click calls
\* window.applyRandomTheme when it is defined and leaves the order alone.
C19_ShuffleIsDerangement ==
    /\ [](IsPermutation(patterns.order) /\ Len(candidates(patterns.order)) > 0)
    /\ [][(IntervalShuffle \/ handleShapeHover) =>
              IsDerangementOf(patterns'.order, patterns.order)]_vars
    /\ [][handleShapeClick =>
              /\ patterns'.order = patterns.order
              /\ patterns'.themesApplied =
                    patterns.themesApplied + (IF patterns.applyRandomTheme THEN 1 ELSE 0)]_vars

\* a mouse enter and an interval tick have both shuffled, and a click has applied a theme
C19_Witness ==
    /\ now > shuffleInterval
    /\ patterns.inputs > 1
    /\ patterns.themesApplied = 1
    /\ patterns.order = <<2, 0, 1>>
    /\ patterns.isMoving

(***************************************************************************)
(* The discovery dot.                                                      *)
(***************************************************************************)
PhaseOf(e) ==
    IF e < 5000 THEN "grow"
    ELSE IF e < 5600 THEN "travel"
    ELSE IF e < 5800 THEN "spring"
    ELSE IF e < 6100 THEN "deflate"
    ELSE "pause"

PhaseAfter(phase) ==
    CASE phase = "grow" -> "travel"
      [] phase = "travel" -> "spring"
      [] phase = "spring" -> "deflate"
      [] phase = "deflate" -> "pause"
      [] OTHER -> "grow"

\* twice the fastest change of the radius in one millisecond (mid-deflate,
\* (end - start) * pi / 2 / deflateDuration): more is a jump
DotRadiusStepBound == (2 * (dotEndRadius - dotStartRadius) * 1571) \div (1000 * deflateDuration)

\* the dot sits at the top of the circle: a whole number of turns, no spring offset
AtTop(pose) == pose.angle % 1000 = 0 /\ pose.spring = 0

InPaddedCanvas(n) ==
    /\ LowBound(n.size) <= n.x /\ n.x <= HighBound(n.size)
    /\ LowBound(n.size) <= n.y /\ n.y <= HighBound(n.size)

\* what the boundary did on one axis: proposed position p and velocity v, result q and w
ClampedAndReflected(p, v, q, w, size) ==
    /\ p < LowBound(size) => (q = LowBound(size) /\ w = Reflect(v))
    /\ p > HighBound(size) => (q = HighBound(size) /\ w = Reflect(v))

\* C21: once a tick has run, the node is within [padding + radius,
\* canvasSize - padding - radius] on both axes, whatever the start and the
\* drags; at a tick whose solver output leaves the padded canvas the node is
\* put on the boundary with that velocity component inverted and damped.
C21_NodesStayInBounds ==
    /\ [](graph.ticks > 0 => InPaddedCanvas(graph))
    /\ [][GraphTick =>
            /\ ClampedAndReflected(graph'.solver.x, graph'.solver.vx, graph'.x, graph'.vx, graph.size)
            /\ ClampedAndReflected(graph'.solver.y, graph'.solver.vy, graph'.y, graph'.vy, graph.size)]_vars

\* a free node overshot the right edge and came back with a damped velocity
C21_Witness ==
    /\ graph.ticks > 0 /\ ~graph.fixed
    /\ graph.solver.x > HighBound(graph.size) /\ graph.solver.vx = MaxSpeed
    /\ graph.x = HighBound(graph.size) /\ graph.vx = -1

(***************************************************************************)
(* The growth circles' state machine.                                      *)
(***************************************************************************)
Pair(v) == <<v.currentNumber, v.targetNumber>>

\* the pose a frame writes when the transition to n is complete
Completed(pose, n) ==
    /\ pose.inner = 1000 * states(n).inner
    /\ pose.middle = 1000 * states(n).middle
    /\ pose.outer = 1000 * states(n).outer
    /\ pose.label = n /\ pose.labelOpacity = 1000

EnteredWithin500(v, t) == \E due \in v.hoverTimers : t < due

\* every mouse-enter is more than 500 ms old
EnteredLongAgo(v, t) == \A due \in v.hoverTimers : due < t

\* C25: a frame of the hover drive run less than 500 ms after the latest
\* mouse-enter moves the offset by the factor 0.03, and a frame run more
\* than 500 ms after it by the factor 0.05, whatever enters and leaves
\* came before.
C25_SmoothingFollowsLatestEnter ==
    [][(RunFrameCallback /\ vis.isHovered /\ vis.mouseX # null) =>
          /\ EnteredWithin500(vis, now) =>
                 vis'.currentScrollOffset =
                     HoverScroll(vis.currentScrollOffset, vis.mouseX, TRUE, vis.isMobile)
          /\ EnteredLongAgo(vis, now) =>
                 vis'.currentScrollOffset =
                     HoverScroll(vis.currentScrollOffset, vis.mouseX, FALSE, vis.isMobile)]_vars

(***************************************************************************)
(* Teardown of useThemeColors.                                             *)
(***************************************************************************)
\* C26: once the cleanup of the hook's effect has run, updateColors is not
\* executed any more, not even by a timeout started before the cleanup;
\* and no step of the hook changes the custom properties of the document.
C26_NoRecomputeAfterTeardown ==
    /\ [][hook = "unmounted" => ~TimerFire]_vars
    /\ [][(HookMount \/ DeliverMutations \/ TimerFire \/ HookUnmount) => css' = css]_vars

(***************************************************************************)
(* isDarkTheme across the notations of one colour.                         *)
(***************************************************************************)
\* C27: for a background with the channels R, G, B the classification is the
\* one isDarkTheme gives for #RRGGBB, for rgb(R, G, B) and for
\* rgba(R, G, B, a) alike; an unset --theme-bg is classified light.
C27_SameResultInEveryNotation ==
    call.fn = "isDarkTheme" =>
        LET bg == css["--theme-bg"] IN
        /\ Parseable(bg) =>
             /\ ret = isDarkThemeOf(HexOf(ChannelR(bg), ChannelG(bg), ChannelB(bg)))
             /\ ret = isDarkThemeOf(Rgb(ChannelR(bg), ChannelG(bg), ChannelB(bg), TRUE))
             /\ \A a \in Alphas :
                    ret = isDarkThemeOf(Rgba(ChannelR(bg), ChannelG(bg), ChannelB(bg), a, TRUE))
        /\ bg = Unset => ret = FALSE

(***************************************************************************)
(* Period bars, gaps and milestones.                                       *)
(***************************************************************************)
\* the consecutive pairs before the period at index that are less than 0.2 years apart
ClosePairsBefore(config, index) ==
    Cardinality({j \in 1..(index - 1) : config[j + 1].start - config[j].end < closeThreshold})

\* C28: each bar is shifted right by one gap for every earlier pair of
\* consecutive periods less than 0.2 years apart, consecutive bars do not
\* overlap, and a milestone dated within its period is drawn within the
\* period's bar.
C28_BarsAndMilestones ==
    call.fn = "positionedPeriods" =>
        LET config == call.args[1]
            owner == call.args[2]
            isMobile == call.args[4]
            bars == ret.periods
            shift(i) == 10 * gapBetweenPeriods(isMobile) * ClosePairsBefore(config, i)
        IN  /\ \A i \in 1..Len(config) :
                   /\ bars[i].startX = yearToXAt(config[i].start, isMobile) + shift(i)
                   /\ bars[i].endX = yearToXAt(config[i].end, isMobile) + shift(i)
            /\ \A i \in 1..(Len(config) - 1) : bars[i].endX <= bars[i + 1].startX
            /\ bars[owner].startX <= ret.milestone /\ ret.milestone <= bars[owner].endX

(***************************************************************************)
(* Autoplay of the timeline on the narrow layout.                          *)
(***************************************************************************)
\* C23: on the narrow layout the translation an autoplay frame applies is
\* -(progress * (totalContentWidth - viewportWidth)), from 0 at progress 0
\* to viewportWidth - yearToX(yearDisplayEnd) at the end of the forward phase.
C23_NarrowAutoplaySweeps ==
    (call.fn = "AutoScroll" /\ call.args[2]) =>
        LET totalContentWidth == yearToX(yearDisplayEnd, TRUE) - yearToX(yearDisplayStart, TRUE)
            p == ((call.args[1] % cycleDuration) * 1000) \div cycleDuration
        IN  /\ ret.applied = 0 - ret.progress * (totalContentWidth - viewportWidth(TRUE))
            /\ p = 800 =>
                   ret.applied = 1000 * (viewportWidth(TRUE) - yearToX(yearDisplayEnd, TRUE))

(***************************************************************************)
(* The schedule of the layered-system wave.                                *)
(***************************************************************************)
WaveStarts == InitialTimeoutFire \/ IntervalFire

C24_TimersSetOnEntry ==
    [][(vis.ctrl = "wave" /\ ~vis.isVisible /\ vis'.isVisible /\ ~reducedMotion) =>
          /\ vis'.initialTimeout = now + 1000
          /\ vis'.interval = now + 5000]_vars

C24_EveryFiveSeconds ==
    [][IntervalFire => (now = vis.interval /\ vis'.interval = vis.interval + 5000)]_vars

C24_NoWaveOverRunningChain == [][WaveStarts => vis.pending = <<>>]_vars

C24_ZeroBetweenWaves ==
    /\ [][(RunFrameCallback /\ vis.ctrl = "wave" /\ vis.mounted
           /\ Len(vis'.pending) < Len(vis.pending)) => vis'.pose.progress = 0]_vars
    /\ [][(vis.ctrl = "wave" /\ vis.pending = <<>> /\ ~WaveStarts) => vis'.pose = vis.pose]_vars

\* C24: while visible without reduced motion the first wave starts 1 s after
\* the entry and a further one every 5 s after the entry; no wave starts
\* while the frame chain of the previous one is still running; and once a
\* wave's chain has ended the progress of the layers is 0 until the next wave.
C24_WaveSchedule ==
    /\ C24_TimersSetOnEntry
    /\ C24_EveryFiveSeconds
    /\ C24_NoWaveOverRunningChain
    /\ C24_ZeroBetweenWaves

(***************************************************************************)
(* The orders the three shapes are displayed in.                           *)
(***************************************************************************)
Rotations == {<<0, 1, 2>>, <<1, 2, 0>>, <<2, 0, 1>>}

\* the orders a shuffle can produce from the given one
NextOrders(order) == {nextOrder(order, random) : random \in RandomDraws}

\* C29: the displayed order is always one of the three rotations of
\* [0, 1, 2], never one of the three swaps, and from the displayed order a
\* shuffle can produce exactly two orders, the two other rotations.
C29_OnlyRotations ==
    /\ patterns.order \in Rotations
    /\ patterns.order \notin {<<0, 2, 1>>, <<2, 1, 0>>, <<1, 0, 2>>}
    /\ Cardinality(NextOrders(patterns.order)) = 2
    /\ NextOrders(patterns.order) = Rotations \ {patterns.order}

\* two shuffles in a row have led from [0,1,2] over another rotation to [1,2,0]
C29_Witness ==
    /\ patterns.order = <<1, 2, 0>>
    /\ patterns.inputs >= 2
    /\ NextOrders(patterns.order) = {<<0, 1, 2>>, <<2, 0, 1>>}

(***************************************************************************)
(* Prefetch links appended to the document head.                           *)
(***************************************************************************)
\* the URLs of the links entered so far, without the missing ones
EnteredUrls == {prefetch.links[l] : l \in prefetch.entered} \ {""}

\* C30: no URL is appended twice, a link without URL appends nothing, and
\* the number of appended prefetch links is the number of distinct non-empty
\* URLs among the links entered so far.
C30_OnePrefetchPerUrl ==
    /\ \A i, j \in 1..Len(prefetch.head) : prefetch.head[i] = prefetch.head[j] => i = j
    /\ \A i \in 1..Len(prefetch.head) : prefetch.head[i] # ""
    /\ Len(prefetch.head) = Cardinality(EnteredUrls)
    /\ {prefetch.head[i] : i \in 1..Len(prefetch.head)} = EnteredUrls

\* two links with the same URL and one without URL have all been entered
C30_Witness ==
    /\ prefetch.links[1] = "/blog" /\ prefetch.links[2] = "/blog" /\ prefetch.links[3] = ""
    /\ {1, 2, 3} \subseteq prefetch.entered
    /\ prefetch.listening \cap {1, 2, 3} = {}
    /\ Len(prefetch.head) > 0 /\ prefetch.head[1] = "/blog"

====
